---------------------------- MODULE Spec2Model ----------------------------
(***************************************************************************)
(* A model of the clustering and matching engine of music-match:           *)
(*   backend/app/recommendations/engine.py  (matching, ranking)            *)
(*   backend/app/clustering/cluster.py      (training, selection, PCA)     *)
(*   backend/app/clustering/describe.py     (cluster descriptions)         *)
(*   backend/app/api/routes.py              (visualization, track import)  *)
(*   backend/app/quiz/scoring.py            (the quiz vector)              *)
(*   backend/app/feature_extraction/spotify_features.py (imported tracks)  *)
(*   backend/app/db/database.py             (the cluster and song store)   *)
(*   backend/cli.py, backend/scripts/seed_sample_data.py (training runs)   *)
(*                                                                         *)
(* Numbers.  The code computes on floats.  The model holds a number as the *)
(* exact fraction the float stands for, in fixed point: a quiz vector      *)
(* holds GRID for 1.0; a song feature and a centroid, which is a mean of   *)
(* song vectors, hold ONE for 1.0, where ONE is GRID times the least       *)
(* common multiple of 1..n, n the largest catalog, so that every mean the  *)
(* training can form of songs on the grid is an integer.  Where the exact  *)
(* values decide a comparison or a rounding, so do the floats, which lie   *)
(* within a few units of 1e-16 of them; where the exact values are equal   *)
(* or half way between two thousandths, the model computes the doubles     *)
(* themselves, operation by operation.                                     *)
(***************************************************************************)
EXTENDS Integers, Sequences, FiniteSets, TLC

(***************************************************************************)
(* Bounds of the model.                                                    *)
(***************************************************************************)
MaxCentroids == 3   \* longest centroid list handed to the matching functions
MaxSongs == 4       \* largest catalog of a clustering run / candidate list
MaxCatalog == 5     \* largest catalog behind a recommendation request
Resolution == 1     \* feature values are multiples of 1/(2*Resolution)

(***************************************************************************)
(* Fixed point.                                                            *)
(***************************************************************************)
RECURSIVE Gcd(_, _)
Gcd(a, b) == IF b = 0 THEN a ELSE Gcd(b, a % b)

RECURSIVE LcmUpTo(_)
LcmUpTo(n) == IF n <= 1 THEN 1
              ELSE LET l == LcmUpTo(n - 1) IN (l * n) \div Gcd(l, n)

GRID == 2 * Resolution
ONE == GRID * LcmUpTo(IF MaxCatalog > MaxSongs THEN MaxCatalog ELSE MaxSongs)
HALF == ONE \div 2
GRID_HALF == GRID \div 2
ToOne(g) == g * (ONE \div GRID)      \* a GRID-unit value in ONE units

(***************************************************************************)
(* quiz/scoring.py                                                         *)
(***************************************************************************)
FEATURE_KEYS == << "bpm_normalized", "energy", "danceability", "acousticness",
                   "valence", "instrumentalness", "loudness" >>

FeatureKeySet == { FEATURE_KEYS[i] : i \in 1..Len(FEATURE_KEYS) }

\* dict.get(key, default)
Get(d, key, default) == IF key \in DOMAIN d THEN d[key] ELSE default

\* vector_to_array: the 7 features in the standard order, 0.5 for a missing key
vector_to_array(vector) ==
    [ i \in 1..Len(FEATURE_KEYS) |-> Get(vector, FEATURE_KEYS[i], GRID_HALF) ]

(***************************************************************************)
(* Arithmetic on arrays.                                                   *)
(***************************************************************************)
RECURSIVE SumSeq(_)
SumSeq(s) == IF s = << >> THEN 0 ELSE Head(s) + SumSeq(Tail(s))

Dot(a, b) == SumSeq([ i \in 1..Len(a) |-> a[i] * b[i] ])

\* np.linalg.norm(a - b), squared
NormSqDiff(a, b) == SumSeq([ i \in 1..Len(a) |-> (a[i] - b[i]) * (a[i] - b[i]) ])

(***************************************************************************)
(* The arithmetic of the Python floats.  The numbers the code computes     *)
(* with are IEEE-754 doubles: every division, subtraction, product, sum    *)
(* and square root is the exact result rounded to the nearest double, a    *)
(* tie going to the even mantissa.  A natural number of any size is the    *)
(* sequence of its digits in base BASE, the lowest first, without leading  *)
(* zero digits; a double is m * 2^e with m of MANT_DIG bits, or zero.      *)
(***************************************************************************)
BASE == 2 ^ 15

\* the number of binary digits of n
RECURSIVE BitLen(_)
BitLen(n) == IF n = 0 THEN 0 ELSE 1 + BitLen(n \div 2)

LIMB_BITS == BitLen(BASE) - 1

RECURSIVE BTrim(_)
BTrim(a) ==
    IF a = << >> THEN << >>
    ELSE IF a[Len(a)] = 0 THEN BTrim(SubSeq(a, 1, Len(a) - 1)) ELSE a

RECURSIVE BFromInt(_)
BFromInt(n) == IF n = 0 THEN << >> ELSE << n % BASE >> \o BFromInt(n \div BASE)

RECURSIVE BToInt(_)
BToInt(a) == IF a = << >> THEN 0 ELSE a[1] + BASE * BToInt(Tail(a))

Limb(a, i) == IF i <= Len(a) THEN a[i] ELSE 0

Min(a, b) == IF a < b THEN a ELSE b

RECURSIVE BAddC(_, _, _, _)
BAddC(a, b, i, carry) ==
    IF i > Len(a) /\ i > Len(b) THEN (IF carry = 0 THEN << >> ELSE << carry >>)
    ELSE LET s == Limb(a, i) + Limb(b, i) + carry
         IN  << s % BASE >> \o BAddC(a, b, i + 1, s \div BASE)

BAdd(a, b) == IF a = << >> THEN b ELSE IF b = << >> THEN a ELSE BAddC(a, b, 1, 0)

RECURSIVE BSubB(_, _, _, _)
BSubB(a, b, i, borrow) ==
    IF i > Len(a) THEN << >>
    ELSE LET d == Limb(a, i) - Limb(b, i) - borrow
         IN  IF d < 0 THEN << d + BASE >> \o BSubB(a, b, i + 1, 1)
             ELSE << d >> \o BSubB(a, b, i + 1, 0)

\* a - b for a >= b
BSub(a, b) == IF b = << >> THEN a ELSE BTrim(BSubB(a, b, 1, 0))

RECURSIVE BCmpFrom(_, _, _)
BCmpFrom(a, b, i) ==
    IF i = 0 THEN 0
    ELSE IF a[i] < b[i] THEN 0 - 1
    ELSE IF a[i] > b[i] THEN 1
    ELSE BCmpFrom(a, b, i - 1)

\* -1, 0 or 1 as a < b, a = b or a > b
BCmp(a, b) ==
    IF Len(a) < Len(b) THEN 0 - 1
    ELSE IF Len(a) > Len(b) THEN 1
    ELSE BCmpFrom(a, b, Len(a))

RECURSIVE BMulSmallC(_, _, _, _)
BMulSmallC(a, k, i, carry) ==
    IF i > Len(a) THEN (IF carry = 0 THEN << >> ELSE << carry >>)
    ELSE LET p == a[i] * k + carry
         IN  << p % BASE >> \o BMulSmallC(a, k, i + 1, p \div BASE)

\* a * k for 0 <= k <= BASE
BMulSmall(a, k) == IF k = 0 THEN << >> ELSE BMulSmallC(a, k, 1, 0)

\* the quotient and the remainder of a by k, 0 < k <= BASE, from the digits
\* a[1..i] with the remainder rem of the higher ones
RECURSIVE BDivSmallFrom(_, _, _, _)
BDivSmallFrom(a, k, i, rem) ==
    IF i = 0 THEN [ q |-> << >>, r |-> rem ]
    ELSE LET cur  == rem * BASE + a[i]
             rest == BDivSmallFrom(a, k, i - 1, cur % k)
         IN  [ q |-> Append(rest.q, cur \div k), r |-> rest.r ]

BDivSmall(a, k) ==
    LET d == BDivSmallFrom(a, k, Len(a), 0) IN [ q |-> BTrim(d.q), r |-> d.r ]

BShlLimbs(a, n) == IF a = << >> THEN << >> ELSE [ i \in 1..n |-> 0 ] \o a

\* a * 2^n and the whole part of a / 2^n
BShl(a, n) ==
    IF a = << >> THEN << >>
    ELSE BShlLimbs(BMulSmall(a, 2 ^ (n % LIMB_BITS)), n \div LIMB_BITS)

BShr(a, n) ==
    IF n \div LIMB_BITS >= Len(a) THEN << >>
    ELSE BDivSmall(SubSeq(a, n \div LIMB_BITS + 1, Len(a)), 2 ^ (n % LIMB_BITS)).q

RECURSIVE BMul(_, _)
BMul(a, b) ==
    IF a = << >> \/ b = << >> THEN << >>
    ELSE BAdd(BMulSmall(a, b[1]), BShlLimbs(BMul(a, Tail(b)), 1))

BBitLen(a) == IF a = << >> THEN 0 ELSE LIMB_BITS * (Len(a) - 1) + BitLen(a[Len(a)])

BOdd(a) == a # << >> /\ a[1] % 2 = 1

BMax(a, b) == IF BCmp(a, b) >= 0 THEN a ELSE b

\* |a - b|
BAbsDiff(a, b) == IF BCmp(a, b) >= 0 THEN BSub(a, b) ELSE BSub(b, a)

\* the largest digit d with b * d <= cur, counted down from a digit est that
\* is not below it
RECURSIVE DivDigit(_, _, _)
DivDigit(b, cur, est) ==
    IF BCmp(BMulSmall(b, est), cur) <= 0 THEN est ELSE DivDigit(b, cur, est - 1)

\* the quotient of the two leading digits of cur by the leading digit of b:
\* not below the digit of the quotient, and at most 2 above it when the
\* leading digit of b is BASE / 2 or more
DivEstimate(b, cur) ==
    Min(BASE - 1,
        (Limb(cur, Len(b) + 1) * BASE + Limb(cur, Len(b))) \div b[Len(b)])

\* a step of the long division by b: the digit d of the quotient that cur,
\* the remainder so far with the next digit of the dividend, gives
DivTake(b, q, cur, d) == [ q |-> << d >> \o q, r |-> BSub(cur, BMulSmall(b, d)) ]

DivNext(b, q, cur) ==
    IF BCmp(cur, b) < 0 THEN [ q |-> << 0 >> \o q, r |-> cur ]
    ELSE DivTake(b, q, cur, DivDigit(b, cur, DivEstimate(b, cur)))

\* long division of a by b from the highest digit of a down: d.q holds a
\* digit of the quotient for every digit of a taken, d.r what they leave
RECURSIVE BDivFrom(_, _, _)
BDivFrom(a, b, d) ==
    IF Len(d.q) = Len(a) THEN d
    ELSE BDivFrom(a, b, DivNext(b, d.q, BTrim(<< a[Len(a) - Len(d.q)] >> \o d.r)))

\* the quotient without leading zero digits, the remainder shifted back
BDivOut(d, sh) == [ q |-> BTrim(d.q), r |-> BShr(d.r, sh) ]

BDivBy(a, b, sh) == BDivOut(BDivFrom(a, b, [ q |-> << >>, r |-> << >> ]), sh)

\* the whole part of a / b and the remainder, b > 0; both are first
\* multiplied by the power of two that brings the leading digit of b to
\* BASE / 2 or more
BDiv(a, b) ==
    BDivBy(BShl(a, LIMB_BITS - BitLen(b[Len(b)])), BShl(b, LIMB_BITS - BitLen(b[Len(b)])),
           LIMB_BITS - BitLen(b[Len(b)]))

\* root * BASE + d, for a digit d
WithDigit(root, d) == IF root = << >> THEN BFromInt(d) ELSE << d >> \o root

\* the whole part of the square root of v, 0 <= v < BASE * BASE
IsqrtInt(v) ==
    LET h == CHOOSE h \in 0..((BASE \div 2 ^ 8) - 1) :
                 (h * 2 ^ 8) * (h * 2 ^ 8) <= v /\ v < ((h + 1) * 2 ^ 8) * ((h + 1) * 2 ^ 8)
    IN  CHOOSE d \in (h * 2 ^ 8)..(h * 2 ^ 8 + 2 ^ 8 - 1) :
            d * d <= v /\ v < (d + 1) * (d + 1)

\* the largest digit d with (twice * BASE + d) * d <= cur, counted down from
\* a digit est that is not below it
RECURSIVE SqrtDigit(_, _, _)
SqrtDigit(twice, cur, est) ==
    IF BCmp(BMulSmall(WithDigit(twice, est), est), cur) <= 0 THEN est
    ELSE SqrtDigit(twice, cur, est - 1)

\* the quotient of the leading digits of cur (cur < 2 * BASE^(Len(root) + 2))
\* by twice the leading digit of the root: not below the next digit of the
\* root, and at most 3 above it when the leading digit of the root is
\* BASE / 2 or more
SqrtEstimate(root, cur) ==
    Min(BASE - 1,
        (Limb(cur, Len(root) + 3) * BASE * BASE + Limb(cur, Len(root) + 2) * BASE
            + Limb(cur, Len(root) + 1)) \div (2 * root[Len(root)]))

\* a step of the square root by long hand: the digit d of the root that cur,
\* the remainder so far with the next two digits of n, gives
SqrtTake(root, cur, d) ==
    [ root |-> << d >> \o root,
      rem  |-> IF d = 0 THEN cur
               ELSE BSub(cur, BMulSmall(WithDigit(BMulSmall(root, 2), d), d)) ]

SqrtNext(root, cur) ==
    SqrtTake(root, cur,
             IF root = << >> THEN IsqrtInt(BToInt(cur))
             ELSE SqrtDigit(BMulSmall(root, 2), cur, SqrtEstimate(root, cur)))

\* the pair of digits of n the root takes after its j higher digits
NextPair(n, j) ==
    << Limb(n, 2 * ((Len(n) + 1) \div 2 - j) - 1), Limb(n, 2 * ((Len(n) + 1) \div 2 - j)) >>

\* the square root by long hand, a digit of the root for every two digits of
\* n (whose leading pair is BASE^2 / 4 or more): s.root is the root of the
\* digits taken, s.rem what they leave
RECURSIVE BSqrtFrom(_, _)
BSqrtFrom(n, s) ==
    IF Len(s.root) = (Len(n) + 1) \div 2 THEN s.root
    ELSE BSqrtFrom(n, SqrtNext(s.root, BTrim(NextPair(n, Len(s.root)) \o s.rem)))

\* the power of four that brings the leading pair of digits of a number of
\* the given length in bits to BASE^2 / 4 or more, as a shift
SqrtPad(bits) ==
    LET pad == (2 * LIMB_BITS - (bits % (2 * LIMB_BITS))) % (2 * LIMB_BITS)
    IN  pad - (pad % 2)

BSqrtBy(n, sh) ==
    BShr(BSqrtFrom(BShl(n, sh), [ root |-> << >>, rem |-> << >> ]), sh \div 2)

\* the whole part of the square root of n
BSqrt(n) == BSqrtBy(n, SqrtPad(BBitLen(n)))

\* the mantissa of a double (sys.float_info.mant_dig)
MANT_DIG == 53

FZero == [ m |-> << >>, e |-> 0 ]

\* m * 2^e for a mantissa m of MANT_DIG bits or, after a carry, one more
Carried(m, e) ==
    IF BBitLen(m) > MANT_DIG THEN [ m |-> BShr(m, 1), e |-> e + 1 ] ELSE [ m |-> m, e |-> e ]

\* M cut to its mantissa q and rounded: t is the mantissa with the bit
\* behind it, s - 1 the number of bits of M behind t
RoundCut(M, e, sticky, s, t, q) ==
    IF ~BOdd(t) \/ (~BOdd(q) /\ ~sticky /\ BShl(t, s - 1) = M) THEN [ m |-> q, e |-> e ]
    ELSE Carried(BAdd(q, << 1 >>), e)

RoundAt(M, e, sticky, s, t) == RoundCut(M, e, sticky, s, t, BShr(t, 1))

RoundBy(M, e, sticky, s) ==
    IF s <= 0 THEN [ m |-> BShl(M, 0 - s), e |-> e + s ]
    ELSE RoundAt(M, e + s, sticky, s, BShr(M, s - 1))

\* the double nearest to (M + f) * 2^e, where 0 <= f < 1 and sticky tells
\* f > 0 (M then has more than MANT_DIG + 1 bits); a tie goes to the even
\* mantissa
FRound(M, e, sticky) ==
    IF M = << >> THEN FZero ELSE RoundBy(M, e, sticky, BBitLen(M) - MANT_DIG)

RatioRound(d) == FRound(d.q, 0 - 6 * LIMB_BITS, d.r # 0)

\* the double of the literal or quotient p / q, 0 <= p, 0 < q <= BASE
FFromRatio(p, q) ==
    IF p = 0 THEN FZero ELSE RatioRound(BDivSmall(BShl(BFromInt(p), 6 * LIMB_BITS), q))

\* the exact sum and difference of two naturals scaled by powers of two,
\* as a natural times 2^Min(ea, eb)
Aligned(M, e, e0) == BShl(M, e - e0)

\* x + y and |x - y|
FAdd(x, y) ==
    IF x = FZero THEN y
    ELSE IF y = FZero THEN x
    ELSE FRound(BAdd(Aligned(x.m, x.e, Min(x.e, y.e)), Aligned(y.m, y.e, Min(x.e, y.e))),
                Min(x.e, y.e), FALSE)

FAbsDiff(x, y) ==
    IF x = y THEN FZero
    ELSE FRound(BAbsDiff(Aligned(x.m, x.e, Min(x.e, y.e)), Aligned(y.m, y.e, Min(x.e, y.e))),
                Min(x.e, y.e), FALSE)

\* x * y
FMul(x, y) ==
    IF x = FZero \/ y = FZero THEN FZero ELSE FRound(BMul(x.m, y.m), x.e + y.e, FALSE)

\* the double of p * 2^pe + acc for a natural p
FAddScaled(p, pe, acc) ==
    FRound(BAdd(Aligned(p, pe, Min(pe, acc.e)), Aligned(acc.m, acc.e, Min(pe, acc.e))),
           Min(pe, acc.e), FALSE)

\* x * y + acc with one rounding (the multiply-add of the dot product)
FFma(x, y, acc) ==
    IF x = FZero \/ y = FZero THEN acc ELSE FAddScaled(BMul(x.m, y.m), x.e + y.e, acc)

DivRound(d, e) == FRound(d.q, e, d.r # << >>)

\* x / y for y > 0
FDiv(x, y) ==
    IF x = FZero THEN FZero
    ELSE DivRound(BDiv(BShl(x.m, 4 * LIMB_BITS), y.m), x.e - y.e - 4 * LIMB_BITS)

\* the shift that makes the exponent of the mantissa even
SqrtShift(e) == IF (e + 4 * LIMB_BITS) % 2 = 0 THEN 4 * LIMB_BITS ELSE 4 * LIMB_BITS + 1

SqrtRound(n, e, r) == FRound(r, e \div 2, BMul(r, r) # n)

SqrtOf(n, e) == SqrtRound(n, e, BSqrt(n))

\* the square root of x
FSqrt(x) ==
    IF x = FZero THEN FZero
    ELSE SqrtOf(BShl(x.m, SqrtShift(x.e)), x.e - SqrtShift(x.e))

\* x < y
FLess(x, y) ==
    IF y.m = << >> THEN FALSE
    ELSE IF x.m = << >> THEN TRUE
    ELSE x.e < y.e \/ (x.e = y.e /\ BCmp(x.m, y.m) < 0)

\* q or q + 1, the nearer to q + f: cmp tells whether f is less than, equal
\* to or greater than a half, and the even one is taken for a half
HalfEven(q, cmp) ==
    IF cmp > 0 \/ (cmp = 0 /\ BOdd(q)) THEN BToInt(q) + 1 ELSE BToInt(q)

RoundShifted(M, s, q) == HalfEven(q, BCmp(BSub(M, BShl(q, s)), BShl(<< 1 >>, s - 1)))

\* the whole number nearest to M / 2^s
RoundShift(M, s) == RoundShifted(M, s, BShr(M, s))

\* round(x, 3) in thousandths: the multiple of 0.001 nearest to the exact
\* value of the double x, the even one of two that are equally near
PyRound3(x) ==
    IF x = FZero THEN 0
    ELSE IF x.e >= 0 THEN BToInt(BShl(BMulSmall(x.m, 1000), x.e))
    ELSE RoundShift(BMulSmall(x.m, 1000), 0 - x.e)

\* np.dot(a, b) of two arrays of doubles.  numpy hands the sum of the
\* products to the dot kernel of the BLAS it is built with, and the double
\* that comes back hangs on the order in which that kernel adds them up:
\*   "seq"       one after the other, every product and every sum rounded
\*   "seq_fma"   one after the other, product and sum in one multiply-add
\*   "pairwise"  the products of each half added up, then the two halves
\*   "exact"     the sum kept in a wider format and rounded once at the end
DotOrders == { "seq", "seq_fma", "pairwise", "exact" }

VARIABLE
    np_dot          \* the order in which the build's np.dot adds up the products

Products(a, b) == [ i \in 1..Len(a) |-> FMul(a[i], b[i]) ]

RECURSIVE FDotSeq(_, _, _)
FDotSeq(p, i, acc) ==
    IF i > Len(p) THEN acc
    ELSE IF acc = FZero THEN FDotSeq(p, i + 1, p[i])
    ELSE FDotSeq(p, i + 1, FAdd(acc, p[i]))

RECURSIVE FDotFrom(_, _, _, _)
FDotFrom(a, b, i, acc) ==
    IF i > Len(a) THEN acc
    ELSE IF acc = FZero THEN FDotFrom(a, b, i + 1, FMul(a[i], b[i]))
    ELSE FDotFrom(a, b, i + 1, FFma(a[i], b[i], acc))

\* p[lo..hi] added up by halves, the first half the shorter one
RECURSIVE FDotPairwise(_, _, _)
FDotPairwise(p, lo, hi) ==
    IF lo > hi THEN FZero
    ELSE IF lo = hi THEN p[lo]
    ELSE FAdd(FDotPairwise(p, lo, lo + (hi - lo + 1) \div 2 - 1),
              FDotPairwise(p, lo + (hi - lo + 1) \div 2, hi))

\* the exact sum of the products a[i] * b[i], as a natural times a power of two
ExactPlus(acc, M, e) ==
    IF acc.m = << >> THEN [ m |-> M, e |-> e ]
    ELSE [ m |-> BAdd(Aligned(M, e, Min(e, acc.e)), Aligned(acc.m, acc.e, Min(e, acc.e))),
           e |-> Min(e, acc.e) ]

RECURSIVE FDotExact(_, _, _, _)
FDotExact(a, b, i, acc) ==
    IF i > Len(a) THEN FRound(acc.m, acc.e, FALSE)
    ELSE IF a[i] = FZero \/ b[i] = FZero THEN FDotExact(a, b, i + 1, acc)
    ELSE FDotExact(a, b, i + 1, ExactPlus(acc, BMul(a[i].m, b[i].m), a[i].e + b[i].e))

FDotIn(order, a, b) ==
    CASE order = "seq"      -> FDotSeq(Products(a, b), 1, FZero)
      [] order = "seq_fma"  -> FDotFrom(a, b, 1, FZero)
      [] order = "pairwise" -> FDotPairwise(Products(a, b), 1, Len(a))
      [] order = "exact"    -> FDotExact(a, b, 1, FZero)

FDot(a, b) == FDotIn(np_dot, a, b)

\* np.linalg.norm(a): the square root of a.dot(a)
FNorm(a) == FSqrt(FDot(a, a))

(***************************************************************************)
(* recommendations/engine.py: find_nearest_cluster, get_adjacent_clusters  *)
(***************************************************************************)
\* the array of a centroid dictionary (engine.py:36-38, 70-72), in ONE units
centroid_arr(centroid) ==
    [ i \in 1..Len(FEATURE_KEYS) |-> Get(centroid, FEATURE_KEYS[i], HALF) ]

\* the user's array in the centroids' unit
user_arr(user_vector) ==
    LET a == vector_to_array(user_vector)
    IN  [ i \in 1..Len(a) |-> ToOne(a[i]) ]

\* np.linalg.norm(user_arr - centroid_arr), squared (engine.py:40, 73)
DistanceSq(user_vector, centroid) ==
    NormSqDiff(user_arr(user_vector), centroid_arr(centroid))

\* the doubles of an array of whole numbers of 1/unit: the user's array is
\* in 1/GRID, a centroid's or a song's in 1/ONE
Floats(arr, unit) == [ i \in 1..Len(arr) |-> FFromRatio(arr[i], unit) ]

\* user_arr - centroid_arr on the doubles; the norm only takes the squares
\* of the differences
Differences(u, c) == [ i \in 1..Len(u) |-> FAbsDiff(u[i], c[i]) ]

\* distance = np.linalg.norm(user_arr - centroid_arr), the double
\* (engine.py:40, 73)
Distance(user_vector, centroid) ==
    FNorm(Differences(Floats(vector_to_array(user_vector), GRID),
                      Floats(centroid_arr(centroid), ONE)))

\* the distances computed for the centroids, in their order
Distances(user_vector, centroids) ==
    [ i \in 1..Len(centroids) |-> Distance(user_vector, centroids[i]) ]

FirstLess(distances) == FLess(distances[1], distances[2])

\* A centroid of eighths: its doubles, their differences from the user's
\* halves, the squares and the sums are all exact, so that the distance is
\* the rounded root of the exact square.
InEighths(centroid) == \A i \in 1..Len(FEATURE_KEYS) :
                           (centroid_arr(centroid)[i] * 8) % ONE = 0

\* `distance < other` on the doubles of two centroids.  Exact squares that
\* differ do so by 1/ONE^2 or more, far more than the rounding of the
\* doubles, and order the doubles; for equal exact squares the roundings
\* decide (there are none between centroids of eighths).
DistanceLess(user_vector, centroid, other) ==
    LET d == DistanceSq(user_vector, centroid)
        o == DistanceSq(user_vector, other)
    IN  d < o \/ (d = o /\ ~(InEighths(centroid) /\ InEighths(other))
                        /\ centroid_arr(centroid) # centroid_arr(other)
                        /\ FirstLess(Distances(user_vector, << centroid, other >>)))

\* The loop of find_nearest_cluster over centroids[i..]: best is
\* (best_cluster_id, best_distance), best_distance = float('inf') as inf = TRUE
\* and, at, the place in centroids of the centroid it is the distance of.
RECURSIVE NearestLoop(_, _, _, _)
NearestLoop(user_vector, centroids, i, best) ==
    IF i > Len(centroids) THEN best
    ELSE LET centroid   == centroids[i]
             cluster_id == Get(centroid, "cluster_id", 0)
             distance   == DistanceSq(user_vector, centroid)
         IN  IF best.inf \/ DistanceLess(user_vector, centroid, centroids[best.at])
             THEN NearestLoop(user_vector, centroids, i + 1,
                     [cluster_id |-> cluster_id, distance_sq |-> distance, inf |-> FALSE,
                      at |-> i])
             ELSE NearestLoop(user_vector, centroids, i + 1, best)

\* the same loop with <= for <: the last of several nearest centroids wins
RECURSIVE NearestLoopLastWins(_, _, _, _)
NearestLoopLastWins(user_vector, centroids, i, best) ==
    IF i > Len(centroids) THEN best
    ELSE LET centroid   == centroids[i]
             cluster_id == Get(centroid, "cluster_id", 0)
             distance   == DistanceSq(user_vector, centroid)
         IN  IF best.inf \/ ~DistanceLess(user_vector, centroids[best.at], centroid)
             THEN NearestLoopLastWins(user_vector, centroids, i + 1,
                     [cluster_id |-> cluster_id, distance_sq |-> distance, inf |-> FALSE,
                      at |-> i])
             ELSE NearestLoopLastWins(user_vector, centroids, i + 1, best)

\* (best_cluster_id, float(best_distance)): the distance as its exact square
Returned(best) ==
    [ cluster_id |-> best.cluster_id, distance_sq |-> best.distance_sq, inf |-> best.inf ]

find_nearest_cluster_last_wins(user_vector, centroids) ==
    Returned(NearestLoopLastWins(user_vector, centroids, 1,
                 [cluster_id |-> 0, distance_sq |-> 0, inf |-> TRUE, at |-> 0]))

find_nearest_cluster(user_vector, centroids) ==
    Returned(NearestLoop(user_vector, centroids, 1,
                 [cluster_id |-> 0, distance_sq |-> 0, inf |-> TRUE, at |-> 0]))

\* the centroid whose distance find_nearest_cluster returns beside the id
\* (engine.py:46)
best_centroid(user_vector, centroids) ==
    centroids[NearestLoop(user_vector, centroids, 1,
                 [cluster_id |-> 0, distance_sq |-> 0, inf |-> TRUE, at |-> 0]).at]

\* 2000 * sqrt(d) >= b, that is 4000000 * d >= b * b, for naturals d and
\* b = 2000 * t + r without forming the squares: with D = d - t * t the
\* difference 4000000 * d - b * b is 1000 * (4000 * D - 4 * t * r) - r * r,
\* negative for D < 0 and positive for D > 2 * t
RootGeq(d, b) ==
    LET t == b \div 2000
        r == b % 2000
    IN  IF d < t * t THEN FALSE
        ELSE IF d - t * t > 2 * t THEN TRUE
        ELSE 4000 * (d - t * t) - 4 * t * r >= (r * r + 999) \div 1000

\* the largest m in lo..hi with 1000 * sqrt(d) / ONE >= m - 1/2, by bisection
RECURSIVE RootSearch(_, _, _)
RootSearch(d, lo, hi) ==
    IF lo >= hi THEN lo
    ELSE LET mid == (lo + hi + 1) \div 2
         IN  IF RootGeq(d, (2 * mid - 1) * ONE)
             THEN RootSearch(d, mid, hi)
             ELSE RootSearch(d, lo, mid - 1)

\* the thousandth nearest to the exact distance sqrt(d) / ONE
NearestThousandthRoot(d) == RootSearch(d, 0, 1000 * (d \div (ONE * ONE) + 1))

\* |4000000 * d - b * b| < BASE for b = 2000 * t + r
RootNear(d, t, r) ==
    /\ d >= t * t
    /\ d - t * t <= 2 * t + 1
    /\ LET a == 4000 * (d - t * t) - 4 * t * r
       IN  /\ a > 0 - 5000
           /\ a < 5000
           /\ 1000 * a - r * r < BASE
           /\ r * r - 1000 * a < BASE

\* whether the exact distance is n / 2000 or so near to it that the
\* rounding of the doubles can decide on which side the computed distance
\* lies: |4000000 * d - (n * ONE)^2| < BASE puts it within 1e-7 of n / 2000,
\* and the doubles are within 1e-14 of the exact values
RootNearHalfway(d, n) == n > 0 /\ RootNear(d, (n * ONE) \div 2000, (n * ONE) % 2000)

RoundRootFrom(user_vector, centroid, d, nearest) ==
    IF \E n \in { 2 * nearest - 1, 2 * nearest + 1 } : RootNearHalfway(d, n)
    THEN PyRound3(Distance(user_vector, centroid))
    ELSE nearest

\* round(distance, 3) in thousandths (engine.py:191): the thousandth nearest
\* to the exact distance, unless that is next to the middle of two
\* thousandths, where Python rounds the double the code computed
RoundDistance(user_vector, centroid) ==
    RoundRootFrom(user_vector, centroid, DistanceSq(user_vector, centroid),
                  NearestThousandthRoot(DistanceSq(user_vector, centroid)))

\* an unstable variant: x goes in front of the elements with an equal key
RECURSIVE InsertByKeyUnstable(_, _)
InsertByKeyUnstable(sorted, x) ==
    IF sorted = << >> THEN << x >>
    ELSE IF x.key <= Head(sorted).key THEN << x >> \o sorted
         ELSE << Head(sorted) >> \o InsertByKeyUnstable(Tail(sorted), x)

\* list.sort(key=...) is stable: insert x behind every element whose key is
\* not greater than x's.
RECURSIVE InsertByKey(_, _)
InsertByKey(sorted, x) ==
    IF sorted = << >> THEN << x >>
    ELSE IF x.key < Head(sorted).key THEN << x >> \o sorted
         ELSE << Head(sorted) >> \o InsertByKey(Tail(sorted), x)

RECURSIVE SortByKey(_)
SortByKey(items) ==
    IF items = << >> THEN << >>
    ELSE InsertByKey(SortByKey(SubSeq(items, 1, Len(items) - 1)), items[Len(items)])

\* the slice s[:n]: the first n elements, all but the last -n for n < 0
Take(s, n) ==
    IF n >= 0 THEN SubSeq(s, 1, IF n < Len(s) THEN n ELSE Len(s))
    ELSE SubSeq(s, 1, IF Len(s) + n > 0 THEN Len(s) + n ELSE 0)

\* the place of the distance of centroids[i] among the distances: how many
\* of the doubles are less than it
DistanceRank(user_vector, centroids, i) ==
    Cardinality({ j \in 1..Len(centroids) :
                    DistanceLess(user_vector, centroids[j], centroids[i]) })

\* [cid for cid, _ in ...]
Ids(distances) == [ i \in 1..Len(distances) |-> distances[i].id ]

\* distances.sort(key=lambda x: x[1]) orders by the doubles; the key of the
\* model is the place of the double, which orders the same way
get_adjacent_clusters(user_vector, centroids, n) ==
    Ids(Take(SortByKey([ i \in 1..Len(centroids) |->
                           [ id  |-> Get(centroids[i], "cluster_id", 0),
                             key |-> DistanceRank(user_vector, centroids, i) ] ]), n))

(***************************************************************************)
(* recommendations/engine.py: rank_songs_in_cluster                        *)
(***************************************************************************)
\* song.bpm / 200.0, in ONE units (the model's bpm values are multiples of
\* 20, so the division is exact)
BpmNormalized(bpm) == (bpm * ONE) \div 200

\* the array rank_songs_in_cluster builds from a Song (engine.py:101-109)
song_arr(song) ==
    << BpmNormalized(song.bpm), song.energy, song.danceability, song.acousticness,
       song.valence, song.instrumentalness, song.loudness >>

\* a*a >= b*b*P for a >= 0, b >= 1, P >= 0, without forming the squares
\* (a = b*t + r; the products stay below 2^31)
SqGeq(a, b, P) ==
    LET t == a \div b
        r == a % b
    IN  IF t > 46340 THEN TRUE
        ELSE IF t * t > P THEN TRUE
        ELSE LET D == P - t * t
             IN  IF D > 2 * t THEN FALSE
                 ELSE 2 * t * r + ((r * r) \div b) >= b * D

\* the largest m in lo..hi with 1000*dot/sqrt(P) >= m - 1/2, by bisection
RECURSIVE RoundSearch(_, _, _, _)
RoundSearch(dot, P, lo, hi) ==
    IF lo >= hi THEN lo
    ELSE LET mid == (lo + hi + 1) \div 2
         IN  IF SqGeq(2000 * dot, 2 * mid - 1, P)
             THEN RoundSearch(dot, P, mid, hi)
             ELSE RoundSearch(dot, P, lo, mid - 1)

\* the thousandth nearest to the exact dot / sqrt(P), for
\* 0 <= dot <= sqrt(P), P > 0 (of two equally near ones the higher; that
\* case is rounded on the doubles, see RoundSimilarity)
NearestThousandth(dot, P) == RoundSearch(dot, P, 0, 1000)

\* whether the exact dot / sqrt(P) is n / 2000 or so near to it that the
\* rounding of the doubles can decide on which side the computed quotient
\* lies: |4000000 * dot^2 - n^2 * P| < BASE puts it within 1e-11 of n / 2000,
\* and the doubles are within 1e-14 of the exact values
NearHalfway(dot, P, n) ==
    n > 0 /\ Len(BAbsDiff(BMul(BFromInt(dot * dot), BFromInt(4000000)),
                          BMul(BFromInt(n * n), BFromInt(P)))) <= 1

\* dot_product / norm_product of two arrays of doubles
NormProduct(norms) == FMul(norms[1], norms[2])

Cosine(a, b) == FDiv(FDot(a, b), NormProduct([ k \in 1..2 |-> FNorm(<< a, b >>[k]) ]))

\* similarity = dot_product / norm_product on the doubles (engine.py:112-116):
\* a value g of the user's array is the double of g / GRID, a value v of the
\* song's the double of v / ONE
FloatSimilarity(u, s) == Cosine(Floats(u, GRID), Floats(s, ONE))

\* the thousandth `nearest`, unless the exact quotient is at or next to the
\* middle between it and one of its neighbours
RoundFrom(u, s, dot_product, norm_sq, nearest) ==
    IF \E n \in { 2 * nearest - 1, 2 * nearest + 1 } : NearHalfway(dot_product, norm_sq, n)
    THEN PyRound3(FloatSimilarity(u, s))
    ELSE nearest

RoundNear(u, s, dot_product, norm_sq) ==
    RoundFrom(u, s, dot_product, norm_sq, NearestThousandth(dot_product, norm_sq))

\* round(float(similarity), 3) in thousandths: the thousandth nearest to the
\* exact quotient, unless that is at or next to the middle of two
\* thousandths, where Python rounds the double the code computed
RoundSimilarity(u, s) == RoundNear(u, s, Dot(u, s), Dot(u, u) * Dot(s, s))

\* the quotient formed whatever the product of the norms
similarity_score_unguarded(u, s) ==
    IF Dot(u, u) * Dot(s, s) > 0 THEN RoundSimilarity(u, s)
    ELSE NearestThousandth(Dot(u, s), Dot(u, u) * Dot(s, s))

\* round(float(similarity), 3) of engine.py:112-122, in thousandths:
\* dot / (|u| * |s|) when the product of the norms is > 0, else 0
similarity_score(u, s) ==
    IF Dot(u, u) * Dot(s, s) > 0 THEN RoundSimilarity(u, s) ELSE 0

\* the entries of scored_songs, with the key of the sort
Scored(song, score) == [ song |-> song, similarity_score |-> score, key |-> 0 - score ]

ScoredAscending(song, score) == [ song |-> song, similarity_score |-> score, key |-> score ]

\* scored_songs[:limit], without the key of the sort
Ranked(sorted, limit) ==
    [ i \in 1..Len(Take(sorted, limit)) |->
        [ song |-> sorted[i].song, similarity_score |-> sorted[i].similarity_score ] ]

\* the ranking without reverse=True: lowest similarity first
rank_songs_in_cluster_ascending(user_vector, songs, limit) ==
    Ranked(SortByKey([ i \in 1..Len(songs) |->
                         ScoredAscending(songs[i],
                             similarity_score(vector_to_array(user_vector),
                                              song_arr(songs[i]))) ]), limit)

\* scored_songs.sort(key=similarity_score, reverse=True); scored_songs[:limit]
\* (a reverse sort keeps equal elements in their original order)
rank_songs_in_cluster(user_vector, songs, limit) ==
    Ranked(SortByKey([ i \in 1..Len(songs) |->
                         Scored(songs[i],
                             similarity_score(vector_to_array(user_vector),
                                              song_arr(songs[i]))) ]), limit)

(***************************************************************************)
(* clustering/cluster.py: KMeans(n_clusters=k, random_state=42, n_init=10) *)
(* and silhouette_score, the two library calls of train_clusters and       *)
(* find_optimal_k, modelled after scikit-learn: the k-means++ seeding,     *)
(* Lloyd's iteration with its relocation of empty clusters, and the        *)
(* silhouette coefficient.  Where the outcome hangs on the random stream,  *)
(* on the release of the library or on the order a partial sort leaves,    *)
(* every outcome is kept.  X is a sequence of arrays in ONE units.         *)
(***************************************************************************)
\* the DataFrame row of a song (cli.py:58-67), in ONE units
feature_row(song) == song_arr(song)

features_df(song_list) == [ i \in 1..Len(song_list) |-> feature_row(song_list[i]) ]

SeqRange(s) == { s[i] : i \in 1..Len(s) }

\* k-means++ seeding: the first center is any sample; each further center is
\* a sample at a positive distance from the centers chosen so far, or any
\* sample when there is none.  Seedings(X, k) is every choice the random
\* stream can make, as sequences of sample indices.
SeedCandidates(X, chosen) ==
    LET far == { i \in 1..Len(X) : \A c \in SeqRange(chosen) : X[c] # X[i] }
    IN  IF far # {} THEN far ELSE 1..Len(X)

RECURSIVE Seedings(_, _)
Seedings(X, k) ==
    IF k = 0 THEN { << >> }
    ELSE UNION { { Append(chosen, i) : i \in SeedCandidates(X, chosen) } :
                 chosen \in Seedings(X, k - 1) }

\* the E-step: every sample goes to its nearest center, the first of several
\* nearest ones
RECURSIVE FirstNearest(_, _, _, _)
FirstNearest(x, centers, j, best) ==
    IF j > Len(centers) THEN best
    ELSE IF NormSqDiff(x, centers[j]) < NormSqDiff(x, centers[best])
         THEN FirstNearest(x, centers, j + 1, j)
         ELSE FirstNearest(x, centers, j + 1, best)

AssignLabels(X, centers) == [ i \in 1..Len(X) |-> FirstNearest(X[i], centers, 2, 1) ]

\* the M-step of one iteration: the sum and the number of the samples of
\* every cluster
Members(labels, j) == { i \in 1..Len(labels) : labels[i] = j }

RECURSIVE SumOver(_, _, _)
SumOver(X, idx, d) ==
    IF idx = {} THEN 0
    ELSE LET i == CHOOSE m \in idx : TRUE
         IN  X[i][d] + SumOver(X, idx \ { i }, d)

SumOf(X, idx) == [ d \in 1..Len(FEATURE_KEYS) |-> SumOver(X, idx, d) ]

Accumulated(X, labels, k) ==
    [ centers_new |-> [ j \in 1..k |-> SumOf(X, Members(labels, j)) ],
      weight_in_clusters |-> [ j \in 1..k |-> Cardinality(Members(labels, j)) ] ]

\* the clusters no sample was given to, in ascending order
RECURSIVE EmptyClusters(_, _)
EmptyClusters(weight_in_clusters, j) ==
    IF j > Len(weight_in_clusters) THEN << >>
    ELSE (IF weight_in_clusters[j] = 0 THEN << j >> ELSE << >>)
         \o EmptyClusters(weight_in_clusters, j + 1)

\* the squared distance of every sample to the center it was given to
DistancesToOwn(X, labels, centers_old) ==
    [ i \in 1..Len(X) |-> NormSqDiff(X[i], centers_old[labels[i]]) ]

\* the samples an empty cluster is moved to: n_empty samples, none nearer to
\* its center than a sample left out.  Which of several equally far samples
\* are taken, and in which order, is the partial sort's matter: every order
\* is an outcome.
FarFromCenters(distances, n_empty) ==
    { far \in [ 1..n_empty -> 1..Len(distances) ] :
        /\ \A a, b \in 1..n_empty : far[a] = far[b] => a = b
        /\ \A a \in 1..n_empty : \A m \in 1..Len(distances) :
             (\A b \in 1..n_empty : far[b] # m) => distances[far[a]] >= distances[m] }

\* every empty cluster takes one of these samples from the cluster it was
\* given to: the sample leaves the sum and the weight of that cluster (the
\* labels stay as they are)
RECURSIVE RelocateEmptyClusters(_, _, _, _, _, _)
RelocateEmptyClusters(X, labels, acc, empty_clusters, far_from_centers, idx) ==
    IF idx > Len(empty_clusters) THEN acc
    ELSE LET new_cluster_id == empty_clusters[idx]
             far_idx == far_from_centers[idx]
             old_cluster_id == labels[far_idx]
         IN  RelocateEmptyClusters(X, labels,
                 [ centers_new |->
                     [ acc.centers_new EXCEPT
                         ![old_cluster_id] = [ d \in 1..Len(FEATURE_KEYS) |-> @[d] - X[far_idx][d] ],
                         ![new_cluster_id] = X[far_idx] ],
                   weight_in_clusters |->
                     [ acc.weight_in_clusters EXCEPT ![old_cluster_id] = @ - 1,
                                                     ![new_cluster_id] = 1 ] ],
                 empty_clusters, far_from_centers, idx + 1)

\* the first cluster of largest weight
ArgmaxWeight(weight_in_clusters) ==
    CHOOSE j \in 1..Len(weight_in_clusters) :
        /\ \A l \in 1..Len(weight_in_clusters) : weight_in_clusters[l] <= weight_in_clusters[j]
        /\ \A l \in 1..(j - 1) : weight_in_clusters[l] < weight_in_clusters[j]

\* What becomes of a center all of whose samples were taken away depends on
\* the release of the library: it is left at what remains of its sum, the
\* origin ("left"), or it is placed on the row of the biggest cluster
\* ("biggest"), which holds its mean when that cluster comes earlier and
\* still its sum when it comes later.
EmptiedRules == { "left", "biggest" }

\* every sum divided by its weight, in the order of the clusters
AverageCenters(acc, rule) ==
    [ j \in 1..Len(acc.centers_new) |->
        IF acc.weight_in_clusters[j] > 0
        THEN [ d \in 1..Len(FEATURE_KEYS) |->
                 acc.centers_new[j][d] \div acc.weight_in_clusters[j] ]
        ELSE IF rule = "left" THEN acc.centers_new[j]
        ELSE LET argmax_weight == ArgmaxWeight(acc.weight_in_clusters)
             IN  IF argmax_weight > j THEN acc.centers_new[argmax_weight]
                 ELSE [ d \in 1..Len(FEATURE_KEYS) |->
                          acc.centers_new[argmax_weight][d]
                              \div acc.weight_in_clusters[argmax_weight] ] ]

\* the centers one iteration can move to
UpdateFrom(X, labels, centers_old, acc, empty_clusters) ==
    IF empty_clusters = << >> THEN { AverageCenters(acc, "left") }
    ELSE { AverageCenters(RelocateEmptyClusters(X, labels, acc, empty_clusters, far, 1), rule) :
             far \in FarFromCenters(DistancesToOwn(X, labels, centers_old), Len(empty_clusters)),
             rule \in EmptiedRules }

UpdateOf(X, labels, centers_old, acc) ==
    UpdateFrom(X, labels, centers_old, acc, EmptyClusters(acc.weight_in_clusters, 1))

UpdateCenters(X, labels, centers_old) ==
    UpdateOf(X, labels, centers_old, Accumulated(X, labels, Len(centers_old)))

\* One iteration from centers and the labels of the iteration before.  It
\* is the last one (stop) when the labels repeat, or when no center has
\* moved: the tolerance is below the smallest move of a mean of grid
\* samples.
LloydIter(X, state) ==
    LET labels == AssignLabels(X, state.centers)
    IN  { [ stop |-> labels = state.labels \/ centers_new = state.centers,
            labels |-> labels, centers |-> centers_new ] :
            centers_new \in UpdateCenters(X, labels, state.centers) }

\* the default max_iter of KMeans
MAX_ITER == 300

\* a run that is cut off after max_iter iterations: the labels of its
\* centers
CutOff(X, states) ==
    { [ labels |-> AssignLabels(X, s.centers), centers |-> s.centers ] : s \in states }

\* Lloyd's iteration from every state of `layer`, the states the runs can be
\* in after Len(before) iterations; `before` holds the layers of the
\* iterations before and `fits` the models of the runs that have ended.
\* Relocated clusters can keep a run going round: when a layer comes back,
\* the layer of iteration max_iter is the one of the round that falls on it.
RECURSIVE Lloyd(_, _, _, _)
Lloyd(X, layer, before, fits) ==
    IF layer = {} THEN fits
    ELSE IF Len(before) = MAX_ITER THEN fits \cup CutOff(X, layer)
    ELSE IF \E m \in 1..Len(before) : before[m] = layer
    THEN LET m == CHOOSE i \in 1..Len(before) : before[i] = layer
             round == Len(before) + 1 - m
         IN  fits \cup CutOff(X, before[m + ((MAX_ITER + 1 - m) % round)])
    ELSE LET iters == UNION { LloydIter(X, state) : state \in layer }
         IN  Lloyd(X,
                   { [ centers |-> it.centers, labels |-> it.labels ] :
                       it \in { i \in iters : ~i.stop } },
                   Append(before, layer),
                   fits \cup { [ labels |-> it.labels, centers |-> it.centers ] :
                                it \in { i \in iters : i.stop } })

\* every fitted model the ten seeded runs can end in: labels_ and
\* cluster_centers_ (clusters numbered from 1)
KMeansFits(X, k) ==
    Lloyd(X, { [ centers |-> [ j \in 1..k |-> X[seeds[j]] ], labels |-> << >> ] :
                 seeds \in Seedings(X, k) }, << >>, { })

\* KMeans(...).fit raises for n_clusters < 1 and for fewer samples than clusters
KMeansRaises(X, k) == k < 1 \/ Len(X) < k

\* silhouette_score raises unless 2 <= number of labels <= n_samples - 1
LabelSet(labels) == { labels[i] : i \in 1..Len(labels) }

SilhouetteRaises(labels) ==
    ~(1 < Cardinality(LabelSet(labels)) /\ Cardinality(LabelSet(labels)) < Len(labels))

\* The distances of the silhouette are square roots, kept here to FRAC_BITS
\* binary places: SqrtFine(n) is the whole part of sqrt(n) * 2^FRAC_BITS.
FRAC_BITS == 2 * LIMB_BITS

SqrtFine(n) == BSqrt(BShl(BFromInt(n), 2 * FRAC_BITS))

\* the square roots of the squared distances of the grid, in grid steps
GridStep == ONE \div GRID
GridSqrt == [ k \in 0..(Len(FEATURE_KEYS) * GRID * GRID) |-> SqrtFine(k) ]

\* the square root of a squared distance n, in ONE units times 2^FRAC_BITS
FineRoot(n) ==
    IF n % (GridStep * GridStep) = 0
    THEN BMulSmall(GridSqrt[n \div (GridStep * GridStep)], GridStep)
    ELSE SqrtFine(n)

\* the Euclidean distance of two samples
DistanceFine(x, y) == FineRoot(NormSqDiff(x, y))

RECURSIVE SumDistances(_, _, _)
SumDistances(X, i, idx) ==
    IF idx = {} THEN << >>
    ELSE LET m == CHOOSE m \in idx : TRUE
         IN  BAdd(DistanceFine(X[i], X[m]), SumDistances(X, i, idx \ { m }))

\* the unit of a silhouette value: millionths
SCORE_ONE == 10 ^ 6

\* (b - a) / max(a, b) in millionths, cut towards 0
SilhouetteQuot(a, b) ==
    IF BCmp(a, b) = 0 THEN 0
    ELSE (IF BCmp(b, a) > 0 THEN 1 ELSE 0 - 1)
         * BToInt(BDiv(BMul(BAbsDiff(a, b), BFromInt(SCORE_ONE)), BMax(a, b)).q)

\* a and b of sample i, both times the two cluster sizes, from the sums of
\* its distances to the samples of every cluster; near is the other cluster
\* of least mean distance
SilhouetteNear(labels, i, sum, near) ==
    SilhouetteQuot(BMulSmall(sum[labels[i]], Cardinality(Members(labels, near))),
                   BMulSmall(sum[near], Cardinality(Members(labels, labels[i])) - 1))

SilhouetteFrom(labels, i, sum) ==
    IF Members(labels, labels[i]) = { i } THEN 0
    ELSE SilhouetteNear(labels, i, sum,
             CHOOSE j \in LabelSet(labels) \ { labels[i] } :
                 \A l \in LabelSet(labels) \ { labels[i] } :
                     BCmp(BMulSmall(sum[j], Cardinality(Members(labels, l))),
                          BMulSmall(sum[l], Cardinality(Members(labels, j)))) <= 0)

\* the silhouette coefficient of sample i: (b - a) / max(a, b) with a the
\* mean distance to the other samples of its cluster and b the least mean
\* distance to the samples of another cluster; 0 for a sample alone in its
\* cluster.  Cut to millionths.
SilhouetteSample(X, labels, i) ==
    SilhouetteFrom(labels, i,
        [ j \in LabelSet(labels) |-> SumDistances(X, i, Members(labels, j) \ { i }) ])

\* silhouette_score(X, labels): the mean over the samples, in millionths
MeanScore(total, n) == IF total >= 0 THEN total \div n ELSE 0 - ((0 - total) \div n)

silhouette_score(X, labels) ==
    MeanScore(SumSeq([ i \in 1..Len(X) |-> SilhouetteSample(X, labels, i) ]), Len(X))

\* the outcome of a call that raised
Raised(error) == [ raised |-> TRUE, error |-> error, labels |-> << >>, centers |-> << >>,
                   score |-> 0 ]

\* train_clusters(features_df, n_clusters), `fit` being the fitted model the
\* seeded runs end in: the exception raised, or the model and its score.
\* A frame built from no rows has no feature columns (KeyError).
train_clusters(X, n_clusters, fit) ==
    IF X = << >> THEN Raised("KeyError")
    ELSE IF KMeansRaises(X, n_clusters) THEN Raised("ValueError")
    ELSE IF SilhouetteRaises(fit.labels) THEN Raised("ValueError")
    ELSE [ raised |-> FALSE, error |-> "", labels |-> fit.labels, centers |-> fit.centers,
           score |-> silhouette_score(X, fit.labels) ]

\* a Python range(start, stop, step), step # 0, and its elements in order
RECURSIVE RangeFrom(_, _, _)
RangeFrom(v, stop, step) ==
    IF (step > 0 /\ v >= stop) \/ (step < 0 /\ v <= stop) THEN << >>
    ELSE << v >> \o RangeFrom(v + step, stop, step)

RangeSeq(r) == RangeFrom(r.start, r.stop, r.step)

DEFAULT_K_START == 4
DEFAULT_K_STOP == 15
DefaultKRange == [ start |-> DEFAULT_K_START, stop |-> DEFAULT_K_STOP, step |-> 1 ]

\* if score > best_score: best_score = score; best_k = k
Better(best, k, score) ==
    IF score > best.best_score THEN [ best_k |-> k, best_score |-> score ] ELSE best

\* the loop of find_optimal_k over ks[i..]; draw[k] is the model fitted for k
RECURSIVE OptimalKLoop(_, _, _, _, _)
OptimalKLoop(X, ks, i, draw, best) ==
    IF i > Len(ks) \/ ks[i] >= Len(X)
    THEN [ raised |-> FALSE, error |-> "", best_k |-> best.best_k ]
    ELSE IF KMeansRaises(X, ks[i]) \/ SilhouetteRaises(draw[ks[i]].labels)
    THEN [ raised |-> TRUE, error |-> "ValueError", best_k |-> 0 ]
    ELSE OptimalKLoop(X, ks, i + 1, draw,
                      Better(best, ks[i], silhouette_score(X, draw[ks[i]].labels)))

\* find_optimal_k(features_df, k_range): best_k starts at k_range.start and
\* best_score at -1; the scan ends at the first k >= len(X)
find_optimal_k(X, k_range, draw) ==
    IF X = << >> THEN [ raised |-> TRUE, error |-> "KeyError", best_k |-> 0 ]
    ELSE OptimalKLoop(X, RangeSeq(k_range), 1, draw,
                      [ best_k |-> k_range.start, best_score |-> 0 - SCORE_ONE ])

\* the cluster counts find_optimal_k fits a model for: those in front of the
\* first k >= len(X)
RECURSIVE ScannedPrefix(_, _)
ScannedPrefix(ks, n) ==
    IF ks = << >> \/ Head(ks) >= n THEN << >>
    ELSE << Head(ks) >> \o ScannedPrefix(Tail(ks), n)

FittedKs(X, k_range) == { k \in SeqRange(ScannedPrefix(RangeSeq(k_range), Len(X))) : k >= 1 }

\* get_cluster_centroids(model): one dictionary per row of cluster_centers_,
\* "cluster_id" the row's index (from 0) and one entry per feature column
get_cluster_centroids(centers) ==
    [ j \in 1..Len(centers) |->
        [ key \in FeatureKeySet \cup { "cluster_id" } |->
            IF key = "cluster_id" THEN j - 1
            ELSE centers[j][CHOOSE c \in 1..Len(FEATURE_KEYS) : FEATURE_KEYS[c] = key] ] ]

(***************************************************************************)
(* clustering/cluster.py: reduce_for_visualization and                     *)
(* reduce_centroids_for_visualization.  A fitted PCA is the frame it was   *)
(* fitted on with the ordinal of the fit within the request; the           *)
(* coordinates of a row are the fitted PCA applied to the row.             *)
(***************************************************************************)
\* PCA(n_components=2).fit raises unless 2 <= min(n_samples, n_features)
PCARaises(X) == Len(X) < 2

PCAFit(X, fits_before) == [ fitted_on |-> X, fit |-> Len(fits_before) + 1 ]

PCATransform(pca, row) == [ pca |-> pca, row |-> row ]

\* reduce_for_visualization(features_df) after the fits in fits_before: the
\* exception, or the fits made so far and the coordinates of the rows
reduce_for_visualization(X, fits_before) ==
    IF X = << >>
    THEN [ raised |-> TRUE, error |-> "KeyError", fits |-> fits_before, coords |-> << >> ]
    ELSE IF PCARaises(X)
    THEN [ raised |-> TRUE, error |-> "ValueError", fits |-> fits_before, coords |-> << >> ]
    ELSE LET pca == PCAFit(X, fits_before)
         IN  [ raised |-> FALSE, error |-> "", fits |-> Append(fits_before, pca),
               coords |-> [ i \in 1..Len(X) |-> PCATransform(pca, X[i]) ] ]

\* reduce_centroids_for_visualization(centroids, features_df): a PCA of its
\* own, fitted on the song features, transforms the centroids
reduce_centroids_for_visualization(centroid_list, X, fits_before) ==
    IF X = << >>
    THEN [ raised |-> TRUE, error |-> "KeyError", fits |-> fits_before, coords |-> << >> ]
    ELSE IF PCARaises(X)
    THEN [ raised |-> TRUE, error |-> "ValueError", fits |-> fits_before, coords |-> << >> ]
    ELSE LET pca == PCAFit(X, fits_before)
         IN  [ raised |-> FALSE, error |-> "", fits |-> Append(fits_before, pca),
               coords |-> [ i \in 1..Len(centroid_list) |->
                              [ cluster_id |-> centroid_list[i]["cluster_id"],
                                xy |-> PCATransform(pca, [ c \in 1..Len(FEATURE_KEYS) |->
                                         centroid_list[i][FEATURE_KEYS[c]] ]) ] ] ]

(***************************************************************************)
(* clustering/describe.py: generate_cluster_description.  A description is *)
(* a sequence of strings: the one phrase of a composite rule, or the       *)
(* descriptors that apply followed by "tracks" (the code joins them with   *)
(* spaces and capitalizes the first letter).  v > 0.7 is 10*v > 7*ONE.     *)
(***************************************************************************)
Gt(v, tenths) == 10 * v > tenths * ONE
Lt(v, tenths) == 10 * v < tenths * ONE

\* one `if <condition>: return <label>` of the cascade
Rule(holds, label) == [ holds |-> holds, label |-> label ]

\* describe.py:30-76, the composite rules in source order
composite_rules(centroid) ==
    LET energy           == Get(centroid, "energy", HALF)
        danceability     == Get(centroid, "danceability", HALF)
        acousticness     == Get(centroid, "acousticness", HALF)
        valence          == Get(centroid, "valence", HALF)
        instrumentalness == Get(centroid, "instrumentalness", HALF)
        loudness         == Get(centroid, "loudness", HALF)
        bpm              == Get(centroid, "bpm_normalized", HALF)
    IN  << Rule(Gt(energy, 7) /\ Gt(danceability, 7) /\ Gt(valence, 6),
                "Upbeat party anthems - energetic, danceable, and feel-good tracks"),
           Rule(Gt(energy, 7) /\ Gt(danceability, 6) /\ Lt(valence, 4),
                "Intense electronic - driving beats with darker undertones"),
           Rule(Lt(energy, 4) /\ Gt(acousticness, 6) /\ Lt(valence, 4),
                "Melancholic acoustic - introspective, stripped-back emotional pieces"),
           Rule(Lt(energy, 5) /\ Gt(acousticness, 6) /\ Gt(valence, 5),
                "Warm acoustic - cozy, feel-good unplugged vibes"),
           Rule(Gt(instrumentalness, 7) /\ Lt(energy, 4),
                "Ambient soundscapes - atmospheric instrumental journeys"),
           Rule(Gt(instrumentalness, 6) /\ Gt(energy, 6),
                "Instrumental energy - dynamic tracks without vocals"),
           Rule(Gt(energy, 7) /\ Lt(danceability, 5) /\ Gt(loudness, 6),
                "High-octane rock - powerful, intense guitar-driven sound"),
           Rule(Gt(energy, 4) /\ Lt(energy, 7) /\ Gt(danceability, 6),
                "Groovy mid-tempo - smooth rhythms perfect for casual listening"),
           Rule(Gt(valence, 7) /\ Gt(energy, 4) /\ Lt(energy, 7),
                "Feel-good favorites - positive vibes without being overwhelming"),
           Rule(Lt(valence, 3) /\ Gt(energy, 4) /\ Lt(energy, 7),
                "Moody and atmospheric - contemplative tracks with depth"),
           Rule(Gt(bpm, 7) /\ Gt(energy, 6),
                "Fast and furious - high-tempo adrenaline rushers"),
           Rule(Lt(bpm, 4) /\ Lt(energy, 4),
                "Slow and steady - relaxed tracks for winding down") >>

\* the rule whose `return` runs: the first one in source order whose
\* condition holds, 0 when the cascade falls through
RECURSIVE FirstMatchFrom(_, _)
FirstMatchFrom(rules, i) ==
    IF i > Len(rules) THEN 0
    ELSE IF rules[i].holds THEN i
    ELSE FirstMatchFrom(rules, i + 1)

RECURSIVE LastMatchFrom(_, _)
LastMatchFrom(rules, i) ==
    IF i < 1 THEN 0
    ELSE IF rules[i].holds THEN i
    ELSE LastMatchFrom(rules, i - 1)

LastMatch(rules) == LastMatchFrom(rules, Len(rules))

FirstMatch(rules) == FirstMatchFrom(rules, 1)

descriptors_valence_first(centroid) ==
    LET energy           == Get(centroid, "energy", HALF)
        danceability     == Get(centroid, "danceability", HALF)
        acousticness     == Get(centroid, "acousticness", HALF)
        valence          == Get(centroid, "valence", HALF)
        instrumentalness == Get(centroid, "instrumentalness", HALF)
    IN  (IF Gt(valence, 7) THEN << "uplifting" >>
         ELSE IF Lt(valence, 3) THEN << "melancholic" >> ELSE << >>)
        \o (IF Gt(energy, 7) THEN << "high-energy" >>
            ELSE IF Lt(energy, 3) THEN << "chill" >> ELSE << >>)
        \o (IF Gt(danceability, 7) THEN << "danceable" >> ELSE << >>)
        \o (IF Gt(acousticness, 7) THEN << "acoustic" >>
            ELSE IF Lt(acousticness, 3) THEN << "electronic" >> ELSE << >>)
        \o (IF Gt(instrumentalness, 7) THEN << "instrumental" >> ELSE << >>)

\* describe.py:79-100, the list `descriptors` after the five appends
descriptors(centroid) ==
    LET energy           == Get(centroid, "energy", HALF)
        danceability     == Get(centroid, "danceability", HALF)
        acousticness     == Get(centroid, "acousticness", HALF)
        valence          == Get(centroid, "valence", HALF)
        instrumentalness == Get(centroid, "instrumentalness", HALF)
    IN  (IF Gt(energy, 7) THEN << "high-energy" >>
         ELSE IF Lt(energy, 3) THEN << "chill" >> ELSE << >>)
        \o (IF Gt(danceability, 7) THEN << "danceable" >> ELSE << >>)
        \o (IF Gt(acousticness, 7) THEN << "acoustic" >>
            ELSE IF Lt(acousticness, 3) THEN << "electronic" >> ELSE << >>)
        \o (IF Gt(valence, 7) THEN << "uplifting" >>
            ELSE IF Lt(valence, 3) THEN << "melancholic" >> ELSE << >>)
        \o (IF Gt(instrumentalness, 7) THEN << "instrumental" >> ELSE << >>)

\* str.capitalize() on the joined descriptors: the first character in upper
\* case (the descriptors are in lower case already)
Capitalize(word) ==
    CASE word = "high-energy"  -> "High-energy"
      [] word = "chill"        -> "Chill"
      [] word = "danceable"    -> "Danceable"
      [] word = "acoustic"     -> "Acoustic"
      [] word = "electronic"   -> "Electronic"
      [] word = "uplifting"    -> "Uplifting"
      [] word = "melancholic"  -> "Melancholic"
      [] word = "instrumental" -> "Instrumental"
      [] OTHER                 -> word

CapitalizeJoined(words) ==
    IF words = << >> THEN << >> ELSE << Capitalize(Head(words)) >> \o Tail(words)

EMPTY_DESCRIPTION == << >>

\* describe.py:105
GENERIC_DESCRIPTION == << "Balanced mix - versatile tracks spanning multiple styles" >>

generate_cluster_description(centroid) ==
    LET rules == composite_rules(centroid)
        first == FirstMatch(rules)
    IN  IF first # 0 THEN << rules[first].label >>
        ELSE IF descriptors(centroid) # << >>
        THEN CapitalizeJoined(descriptors(centroid)) \o << "tracks" >>
        ELSE GENERIC_DESCRIPTION

(***************************************************************************)
(* clustering/describe.py: get_cluster_mood_emoji.  An emoji is written as *)
(* the code points of the returned string.                                 *)
(***************************************************************************)
GENERIC_EMOJI == "U+1F3B5"

get_cluster_mood_emoji(centroid) ==
    LET energy           == Get(centroid, "energy", HALF)
        valence          == Get(centroid, "valence", HALF)
        acousticness     == Get(centroid, "acousticness", HALF)
        instrumentalness == Get(centroid, "instrumentalness", HALF)
    IN  IF Gt(energy, 7) /\ Gt(valence, 6) THEN "U+1F525"
        ELSE IF Gt(energy, 7) /\ Lt(valence, 4) THEN "U+26A1"
        ELSE IF Gt(acousticness, 7) THEN "U+1F3B8"
        ELSE IF Gt(instrumentalness, 7) /\ Lt(energy, 4) THEN "U+1F319"
        ELSE IF Gt(valence, 7) THEN "U+2600 U+FE0F"
        ELSE IF Lt(valence, 3) THEN "U+1F327 U+FE0F"
        ELSE IF Lt(energy, 3) THEN "U+1F60C"
        ELSE GENERIC_EMOJI

(***************************************************************************)
(* db/database.py: the songs and clusters tables.  `songs` is the table in *)
(* title order with cluster_id 0 for NULL; `clusters` maps the ids of the  *)
(* rows to their columns; `cluster_seq` is the AUTOINCREMENT counter of    *)
(* the clusters table (sqlite_sequence), which a DELETE does not reset.    *)
(***************************************************************************)
NULL == 0

EmptyTable == [ id \in {} |-> 0 ]

ClusterRow(centroid, description, song_count) ==
    [ centroid |-> centroid, description |-> description, song_count |-> song_count ]

\* SELECT * FROM songs ORDER BY title
get_all_songs(song_table) == song_table

RECURSIVE InsertByPopularity(_, _)
InsertByPopularity(sorted, row) ==
    IF sorted = << >> THEN << row >>
    ELSE IF Head(sorted).popularity < row.popularity THEN << row >> \o sorted
    ELSE << Head(sorted) >> \o InsertByPopularity(Tail(sorted), row)

RECURSIVE OrderByPopularity(_)
OrderByPopularity(rows) ==
    IF rows = << >> THEN << >>
    ELSE InsertByPopularity(OrderByPopularity(SubSeq(rows, 1, Len(rows) - 1)),
                            rows[Len(rows)])

RECURSIVE WhereCluster(_, _)
WhereCluster(rows, cluster_id) ==
    IF rows = << >> THEN << >>
    ELSE (IF Head(rows).cluster_id # NULL /\ Head(rows).cluster_id = cluster_id
          THEN << Head(rows) >> ELSE << >>)
         \o WhereCluster(Tail(rows), cluster_id)

\* SELECT * FROM songs WHERE cluster_id = ? ORDER BY popularity DESC, title,
\* with `LIMIT limit` when limit is not 0 (`if limit:`); a negative LIMIT is
\* no limit to SQLite
get_songs_by_cluster(song_table, cluster_id, limit) ==
    LET rows == OrderByPopularity(WhereCluster(song_table, cluster_id))
    IN  IF limit > 0 THEN Take(rows, limit) ELSE rows

\* SELECT * FROM clusters ORDER BY id: the rows with their ids
RECURSIVE RowsById(_, _)
RowsById(cluster_table, ids) ==
    IF ids = {} THEN << >>
    ELSE LET id == CHOOSE m \in ids : \A n \in ids : m <= n
         IN  << [ id |-> id, row |-> cluster_table[id] ] >>
             \o RowsById(cluster_table, ids \ { id })

get_all_clusters(cluster_table) == RowsById(cluster_table, DOMAIN cluster_table)

\* SELECT * FROM clusters WHERE id = ?: the row, or None
get_cluster_by_id(cluster_table, cluster_id) ==
    IF cluster_id \in DOMAIN cluster_table
    THEN [ found |-> TRUE, id |-> cluster_id, row |-> cluster_table[cluster_id] ]
    ELSE [ found |-> FALSE, id |-> cluster_id, row |-> ClusterRow(<< >>, << >>, 0) ]

\* the id the INSERT of save_cluster gives the new row when ids come from
\* the largest id in the table
LargestRowIdPlusOne(cluster_table, seq) ==
    IF DOMAIN cluster_table = {} THEN 1
    ELSE 1 + (CHOOSE m \in DOMAIN cluster_table : \A n \in DOMAIN cluster_table : n <= m)

\* the id the INSERT of save_cluster gives the new row: INTEGER PRIMARY KEY
\* AUTOINCREMENT, one more than the largest id the table ever held
InsertedClusterId(cluster_table, seq) == seq + 1

\* save_cluster with cluster.id unset: INSERT
InsertCluster(cluster_table, seq, row) ==
    LET id == InsertedClusterId(cluster_table, seq)
    IN  [ i \in DOMAIN cluster_table \cup { id } |-> IF i = id THEN row ELSE cluster_table[i] ]

\* save_cluster with cluster.id set: UPDATE ... WHERE id = ?
UpdateCluster(cluster_table, id, row) ==
    [ i \in DOMAIN cluster_table |-> IF i = id THEN row ELSE cluster_table[i] ]

\* a clear_clusters that deletes the songs of the deleted clusters with them
clear_clusters_cascading(song_table) ==
    SelectSeq(song_table, LAMBDA song : song.cluster_id = NULL)

\* clear_clusters: DELETE FROM clusters (EmptyTable);
\* UPDATE songs SET cluster_id = NULL
clear_clusters(song_table) ==
    [ i \in 1..Len(song_table) |-> [ song_table[i] EXCEPT !.cluster_id = NULL ] ]

\* update_song_cluster: UPDATE songs SET cluster_id = ? WHERE id = ?
update_song_cluster(song_table, song_id, cluster_id) ==
    [ i \in 1..Len(song_table) |->
        IF song_table[i].id = song_id THEN [ song_table[i] EXCEPT !.cluster_id = cluster_id ]
        ELSE song_table[i] ]

\* get_song_by_spotify_id: SELECT * FROM songs WHERE spotify_id = ?
get_song_by_spotify_id(song_table, spotify_id) ==
    LET rows == SelectSeq(song_table, LAMBDA song : song.spotify_id = spotify_id)
    IN  IF rows = << >> THEN [ found |-> FALSE, id |-> 0 ]
        ELSE [ found |-> TRUE, id |-> Head(rows).id ]

\* the table with row at the given place, 1..Len(song_table) + 1
InsertAt(song_table, row, place) ==
    SubSeq(song_table, 1, place - 1) \o << row >> \o SubSeq(song_table, place, Len(song_table))

\* save_song's SELECT id FROM songs WHERE spotify_id = ? (database.py:145-152):
\* a song with a spotify_id takes the id of the row that has it
save_song_select(song_table, song) ==
    LET existing == IF song.spotify_id # "" THEN get_song_by_spotify_id(song_table, song.spotify_id)
                    ELSE [ found |-> FALSE, id |-> 0 ]
    IN  IF existing.found THEN [ song EXCEPT !.id = existing.id ] ELSE song

\* the rows other than the row with this id
RowsBut(song_table, id) == SelectSeq(song_table, LAMBDA row : row.id # id)

\* The table is held in the order of get_all_songs, ORDER BY title; these
\* are the places the title of the song can fall among the other rows.
Places(song_table, song) == 1..(Len(RowsBut(song_table, song.id)) + 1)

\* the INSERT of a spotify_id a row already has fails on the UNIQUE column
\* (database.py:24)
SaveRaises(song_table, song) ==
    /\ song.id = 0
    /\ song.spotify_id # ""
    /\ get_song_by_spotify_id(song_table, song.spotify_id).found

\* save_song's write (database.py:154-192).  A song with an id: the row of
\* that id is rewritten in every column, title and cluster_id included, so
\* it can move in the title order; no row of that id, no change.  A song
\* without: a new row under the next id (no row is ever deleted).
save_song_write(song_table, song, place) ==
    IF song.id # 0
    THEN IF \E i \in 1..Len(song_table) : song_table[i].id = song.id
         THEN InsertAt(RowsBut(song_table, song.id), song, place)
         ELSE song_table
    ELSE IF SaveRaises(song_table, song) THEN song_table
    ELSE InsertAt(song_table, [ song EXCEPT !.id = Len(song_table) + 1 ], place)

\* save_song with nothing between its SELECT and its write.  cluster_table
\* is not consulted: the FOREIGN KEY of the schema (database.py:53) is not
\* enforced, no connection sets PRAGMA foreign_keys.
save_song(song_table, cluster_table, song, place) ==
    save_song_write(song_table, save_song_select(song_table, song), place)

(***************************************************************************)
(* State.                                                                  *)
(***************************************************************************)
VARIABLES
    user_vector,    \* the query dictionary of the call or request under way
    centroids,      \* the centroid list handed to the matching functions
    nearest,        \* what find_nearest_cluster returned
    adjacent,       \* what get_adjacent_clusters returned, and for which n
    cand_songs,     \* the Song list handed to rank_songs_in_cluster
    ranked,         \* what rank_songs_in_cluster returned, and for which limit
    songs,          \* the songs table
    clusters,       \* the clusters table
    cluster_seq,    \* the AUTOINCREMENT counter of the clusters table
    train,          \* the clustering runs: cli.py cluster and the seed script
    runs,           \* clustering runs started so far
    imports,        \* the POST /spotify/import requests under way
    req,            \* the get_recommendations request under way
    call,           \* the direct call of a clustering function and its outcome
    viz             \* the /clusters/visualization request under way

callVars == << user_vector, centroids, nearest, adjacent, cand_songs, ranked >>
storeVars == << songs, clusters, cluster_seq >>
vars == << np_dot, user_vector, centroids, nearest, adjacent, cand_songs, ranked,
           songs, clusters, cluster_seq, train, runs, imports, req, call, viz >>

\* the positions and locals of a clustering run
\* "cli" and "cli_2" are two invocations of `cli.py cluster`, "seed" is the
\* seed script's run_clustering
CliIds == { "cli", "cli_2" }
TrainerIds == CliIds \cup { "seed" }
Finished == { "idle", "done", "failed", "returned" }

NoFit == [ labels |-> << >>, centers |-> << >> ]
NoRow == [ found |-> FALSE, id |-> 0, row |-> ClusterRow(<< >>, << >>, 0) ]

IdleRun == [ pc |-> "idle", run_no |-> 0, error |-> "", n_clusters |-> 0, songs |-> << >>,
             labels |-> << >>, centroids |-> << >>, cluster_id_map |-> << >>, i |-> 0,
             cluster_counts |-> << >>, existing |-> NoRow, old_ids |-> {},
             old_clusters |-> EmptyTable, old_songs |-> << >>, n_songs |-> 0 ]

NotCalled == [ called |-> FALSE ]

\* the import requests, and the position and the Song of one
\* (api/routes.py:424-498)
ImportIds == { "import", "import_2" }
IdleImport == [ pc |-> "idle", error |-> "",
                song |-> [ id |-> 0, spotify_id |-> "", bpm |-> 0, energy |-> 0,
                           danceability |-> 0, acousticness |-> 0, valence |-> 0,
                           instrumentalness |-> 0, loudness |-> 0, popularity |-> 0,
                           cluster_id |-> NULL ] ]

\* the positions and locals of a visualization request (api/routes.py:131-194)
IdleViz == [ pc |-> "idle", songs |-> << >>, fits |-> << >>, error |-> "",
             result |-> [ songs |-> << >>, centroids |-> << >> ] ]

\* the result of get_recommendations (engine.py:148-152, 194-198), and the
\* positions and locals of a request
NoMatch == [ none |-> TRUE, found |-> FALSE, id |-> 0, row |-> NoRow.row,
             distance |-> 0, sample_songs |-> << >> ]
EmptyResult == [ matched_cluster |-> NoMatch, songs |-> << >>, adjacent_clusters |-> << >> ]
IdleRequest == [ pc |-> "idle", limit |-> 0, reads |-> 0, matched_cluster |-> NoRow,
                 adjacent_ids |-> << >>, i |-> 0, cluster |-> NoRow,
                 adjacent_clusters |-> << >>, result |-> EmptyResult ]

(***************************************************************************)
(* Inputs.                                                                 *)
(***************************************************************************)
VaryingKeys == { "energy", "acousticness" }
FixedKeys == FeatureKeySet \ VaryingKeys

\* the dictionaries that hold every fixed key at 0.5, and each varying key at
\* 0.0, at 1.0 or not at all; `one` is 1.0 in the dictionary's unit
PartialVectors(one) ==
    UNION { { [ k \in FixedKeys \cup S |->
                  IF k \in FixedKeys THEN one \div 2 ELSE f[k] ] :
              f \in [ S -> { 0, one } ] } : S \in SUBSET VaryingKeys }

ZeroVector == [ k \in FeatureKeySet |-> 0 ]

QueryVectors == PartialVectors(GRID) \cup { ZeroVector }

\* a centroid list: feature dictionaries, numbered 1, 2, ... in list order
\* under "cluster_id", or all without that key
WithId(d, id) == [ k \in DOMAIN d \cup { "cluster_id" } |->
                     IF k = "cluster_id" THEN id ELSE d[k] ]

\* the dictionaries of the centroids: the partial ones that hold
\* "acousticness"
CentroidDicts == { d \in PartialVectors(ONE) : "acousticness" \in DOMAIN d }

\* the centroids of clusters of three songs: every feature at 0.5 but the
\* energy, the mean of (0, 0.5, 0.5), of (1, 0.5, 0.5) or of (1, 1, 1)
MeanDicts ==
    { [ k \in FeatureKeySet |-> IF k = "energy" THEN v ELSE HALF ] :
        v \in { ONE \div 3, (2 * ONE) \div 3, ONE } }

ListsOf(dicts) ==
    UNION { UNION { { [ i \in 1..m |-> WithId(f[i], i) ], f } :
                    f \in [ 1..m -> dicts ] } : m \in 0..MaxCentroids }

CentroidLists == ListsOf(CentroidDicts) \cup ListsOf(MeanDicts)

\* song rows (db/models.py Song): the columns the engine reads, and
\* spotify_id, "" for None
SongRow(id, bpm, e, d, a, v, i, l) ==
    [ id |-> id, spotify_id |-> "", bpm |-> bpm, energy |-> ToOne(e),
      danceability |-> ToOne(d), acousticness |-> ToOne(a), valence |-> ToOne(v),
      instrumentalness |-> ToOne(i), loudness |-> ToOne(l),
      popularity |-> 0, cluster_id |-> 0 ]

\* feature profiles: a row with the schema's defaults (all 0), a high-energy
\* dance track, a low-energy acoustic track, a mid-range track
ProfileList == << SongRow(0, 0, 0, 0, 0, 0, 0, 0),
                  SongRow(0, 200, GRID, GRID, 0, GRID, 0, GRID),
                  SongRow(0, 100, 0, 0, GRID, GRID_HALF, GRID, 0),
                  SongRow(0, 100, GRID_HALF, GRID_HALF, GRID_HALF, GRID_HALF, GRID_HALF,
                          GRID_HALF) >>

Profiles == SeqRange(ProfileList)

\* the candidates of a ranking: the profiles, a track with every feature at
\* its maximum (a multiple of the mid-range track) and a track stored with a
\* tempo of 300 (the bpm column holds the raw tempo, database.py:40)
RankProfiles ==
    Profiles \cup { SongRow(0, 200, GRID, GRID, GRID, GRID, GRID, GRID),
                    SongRow(0, 300, GRID, GRID_HALF, 0, GRID_HALF, 0, GRID) }

\* a list of rows with the ids 1, 2, ... in list order
SongLists ==
    UNION { { [ i \in 1..m |-> [ f[i] EXCEPT !.id = i ] ] : f \in [ 1..m -> RankProfiles ] } :
            m \in 0..MaxSongs }

NotCalledNearest == [ called |-> FALSE,
                      result |-> [ cluster_id |-> 0, distance_sq |-> 0, inf |-> TRUE ] ]
NotCalledAdjacent == [ called |-> FALSE, n |-> 0, ids |-> << >> ]
NotCalledRanked == [ called |-> FALSE, limit |-> 0, out |-> << >> ]

(***************************************************************************)
(* The matching functions on arbitrary inputs.                             *)
(***************************************************************************)
InitMatch ==
    /\ np_dot \in DotOrders
    /\ user_vector \in QueryVectors
    /\ centroids \in CentroidLists
    /\ nearest = NotCalledNearest
    /\ adjacent = NotCalledAdjacent
    /\ cand_songs = << >>
    /\ ranked = NotCalledRanked
    /\ songs = << >>
    /\ clusters = EmptyTable
    /\ cluster_seq = 0
    /\ train = [ p \in TrainerIds |-> IdleRun ]
    /\ runs = 0
    /\ imports = [ p \in ImportIds |-> IdleImport ]
    /\ req = IdleRequest
    /\ call = NotCalled
    /\ viz = IdleViz

CallFindNearestCluster ==
    /\ ~nearest.called /\ ~adjacent.called
    /\ nearest' = [ called |-> TRUE, result |-> find_nearest_cluster(user_vector, centroids) ]
    /\ UNCHANGED << np_dot, user_vector, centroids, adjacent, cand_songs, ranked,
                    storeVars, train, runs, imports, req, call, viz >>

CallGetAdjacentClusters ==
    /\ ~nearest.called /\ ~adjacent.called
    /\ \E n \in 0..(MaxCentroids + 1) :
         adjacent' = [ called |-> TRUE, n |-> n,
                       ids |-> get_adjacent_clusters(user_vector, centroids, n) ]
    /\ UNCHANGED << np_dot, user_vector, centroids, nearest, cand_songs, ranked,
                    storeVars, train, runs, imports, req, call, viz >>

NextMatch == CallFindNearestCluster \/ CallGetAdjacentClusters

SpecMatch == InitMatch /\ [][NextMatch]_vars

(***************************************************************************)
(* rank_songs_in_cluster on arbitrary inputs.                              *)
(***************************************************************************)
InitRank ==
    /\ np_dot \in DotOrders
    /\ user_vector \in QueryVectors
    /\ centroids = << >>
    /\ nearest = NotCalledNearest
    /\ adjacent = NotCalledAdjacent
    /\ cand_songs \in SongLists
    /\ ranked = NotCalledRanked
    /\ songs = << >>
    /\ clusters = EmptyTable
    /\ cluster_seq = 0
    /\ train = [ p \in TrainerIds |-> IdleRun ]
    /\ runs = 0
    /\ imports = [ p \in ImportIds |-> IdleImport ]
    /\ req = IdleRequest
    /\ call = NotCalled
    /\ viz = IdleViz

CallRankSongsInCluster ==
    /\ ~ranked.called
    /\ \E limit \in 0..(MaxSongs + 1) :
         ranked' = [ called |-> TRUE, limit |-> limit,
                     out |-> rank_songs_in_cluster(user_vector, cand_songs, limit) ]
    /\ UNCHANGED << np_dot, user_vector, centroids, nearest, adjacent, cand_songs,
                    storeVars, train, runs, imports, req, call, viz >>

NextRank == CallRankSongsInCluster

SpecRank == InitRank /\ [][NextRank]_vars

(***************************************************************************)
(* rank_songs_in_cluster on candidates close to one another: for the query *)
(* with energy and acousticness 0.0 the first two tracks have the cosine   *)
(* similarities 0.97619 and 0.97590.                                       *)
(***************************************************************************)
CloseProfiles ==
    { SongRow(0, 100, 0, GRID, 0, GRID, GRID, GRID),
      SongRow(0, 200, 0, GRID, GRID_HALF, GRID, GRID, GRID),
      SongRow(0, 100, GRID_HALF, GRID_HALF, GRID_HALF, GRID_HALF, GRID_HALF, GRID_HALF),
      SongRow(0, 100, GRID_HALF, GRID_HALF, GRID, GRID, GRID, GRID_HALF) }

\* a query whose cosine similarity to the last of the close profiles is
\* 0.8125, half way between 0.812 and 0.813
HalfwayQuery ==
    [ k \in FeatureKeySet |->
        IF k \in { "bpm_normalized", "energy", "danceability" } THEN GRID ELSE GRID_HALF ]

CloseSongLists ==
    UNION { { [ i \in 1..m |-> [ f[i] EXCEPT !.id = i ] ] : f \in [ 1..m -> CloseProfiles ] } :
            m \in 0..MaxSongs }

InitRankClose ==
    /\ np_dot \in DotOrders
    /\ user_vector \in QueryVectors \cup { HalfwayQuery }
    /\ centroids = << >>
    /\ nearest = NotCalledNearest
    /\ adjacent = NotCalledAdjacent
    /\ cand_songs \in CloseSongLists
    /\ ranked = NotCalledRanked
    /\ songs = << >>
    /\ clusters = EmptyTable
    /\ cluster_seq = 0
    /\ train = [ p \in TrainerIds |-> IdleRun ]
    /\ runs = 0
    /\ imports = [ p \in ImportIds |-> IdleImport ]
    /\ req = IdleRequest
    /\ call = NotCalled
    /\ viz = IdleViz

SpecRankClose == InitRankClose /\ [][NextRank]_vars

(***************************************************************************)
(* Clustering runs: cluster_command of cli.py ("cli") and run_clustering   *)
(* of scripts/seed_sample_data.py ("seed").  Every awaited database call   *)
(* is one step; the computation between two calls belongs to the step of   *)
(* the call in front of it.                                                *)
(***************************************************************************)
MaxRuns == 2        \* clustering runs in one behaviour

\* the run's outcome: its locals are gone, what it was asked and what it
\* created stay on record
Ended(run, pc, error) ==
    [ IdleRun EXCEPT !.pc = pc, !.run_no = run.run_no, !.error = error,
                     !.n_clusters = run.n_clusters,
                     !.cluster_id_map = run.cluster_id_map, !.old_ids = run.old_ids,
                     !.old_clusters = run.old_clusters, !.old_songs = run.old_songs ]

KArgs == 0..(MaxSongs + 1)      \* the cluster counts a run is asked for

\* the fitted models KMeans(n_clusters=k, random_state=42, n_init=10).fit(X)
\* can end in.  Which one the generator seeded with 42 leads to is the
\* library's matter: every call is given any of them.
FitChoices(X, k) ==
    IF X = << >> \/ KMeansRaises(X, k) THEN { NoFit } ELSE KMeansFits(X, k)

\* the fitted models of the calls find_optimal_k makes, one for every k of ks
DrawChoices(X, ks) ==
    LET pairs == UNION { { << k, fit >> : fit \in FitChoices(X, k) } : k \in ks }
    IN  { d \in [ ks -> { pair[2] : pair \in pairs } ] :
            \A k \in ks : << k, d[k] >> \in pairs }

\* cli.py:71-75 and seed_sample_data.py:151: the cluster count of the run
\* is the argument, or what find_optimal_k returns over the default range
Modes == { [ auto |-> FALSE, n_clusters |-> k ] : k \in KArgs }
             \cup { [ auto |-> TRUE, n_clusters |-> 0 ] }

\* cli.py:71-77: the run goes on with the cluster count find_optimal_k found
BegunWith(begun, found) ==
    IF found.raised THEN Ended(begun, "failed", found.error)
    ELSE [ begun EXCEPT !.pc = "cli_clear", !.n_clusters = found.best_k ]

\* cli.py:46-77: init_db, get_all_songs, the DataFrame, find_optimal_k
CliBeginOf(p) ==
    /\ train[p].pc \in Finished
    /\ runs < MaxRuns
    /\ runs' = runs + 1
    /\ LET rows == get_all_songs(songs)
           X == features_df(rows)
           begun == [ IdleRun EXCEPT !.run_no = runs + 1, !.songs = rows,
                                     !.old_ids = DOMAIN clusters,
                                     !.old_clusters = clusters, !.old_songs = songs ]
       IN  \E mode \in Modes :
             IF rows = << >>
             THEN train' = [ train EXCEPT ![p] = Ended(begun, "failed", "SystemExit") ]
             ELSE IF ~mode.auto
             THEN train' = [ train EXCEPT ![p] =
                               [ begun EXCEPT !.pc = "cli_clear", !.n_clusters = mode.n_clusters ] ]
             ELSE \E draw \in DrawChoices(X, FittedKs(X, DefaultKRange)) :
                    train' = [ train EXCEPT ![p] =
                                 BegunWith(begun, find_optimal_k(X, DefaultKRange, draw)) ]
    /\ UNCHANGED << np_dot, callVars, storeVars, imports, req, call, viz >>

CliBegin == CliBeginOf("cli")

\* train_clusters and get_cluster_centroids in a run that has its songs:
\* the run's next position
TrainedFrom(run, out) ==
    IF out.raised THEN Ended(run, "failed", out.error)
    ELSE [ run EXCEPT !.pc = "save_clusters", !.labels = out.labels,
                      !.centroids = get_cluster_centroids(out.centers), !.i = 0 ]

Trained(run, fit) ==
    TrainedFrom(run, train_clusters(features_df(run.songs), run.n_clusters, fit))

\* cli.py:80-87: clear_clusters, then train_clusters and the centroids
CliClearAndTrainOf(p) ==
    /\ train[p].pc = "cli_clear"
    /\ clusters' = EmptyTable
    /\ songs' = clear_clusters(songs)
    /\ LET run == train[p]
           X == features_df(run.songs)
       IN  \E fit \in FitChoices(X, run.n_clusters) :
             train' = [ train EXCEPT ![p] = Trained(run, fit) ]
    /\ UNCHANGED << np_dot, callVars, cluster_seq, runs, imports, req, call, viz >>

CliClearAndTrain == CliClearAndTrainOf("cli")

MaxSeedSongs == 2   \* songs one run of the seed script generates
MaxSeeded == 3      \* largest catalog a run of the seed script adds songs up to

\* generate_synthetic_features (seed_sample_data.py:66-126) on the grid: a
\* "balanced" and an "electronic" song, each at 100 bpm
SeedProfiles ==
    { SongRow(0, 100, GRID_HALF, GRID_HALF, GRID_HALF, GRID_HALF, GRID_HALF, GRID_HALF),
      SongRow(0, 100, GRID, GRID, 0, GRID_HALF, GRID, GRID_HALF) }

\* seed_sample_data.py:239-243, 129-145: main() with songs to generate:
\* init_db, then seed_songs saves its first song
SeedSongsBegin ==
    /\ train["seed"].pc \in Finished
    /\ runs < MaxRuns
    /\ runs' = runs + 1
    /\ \E n_songs \in 1..MaxSeedSongs, n_clusters \in KArgs, song \in SeedProfiles,
          place \in 1..(Len(songs) + 1) :
         /\ Len(songs) + n_songs <= MaxSeeded
         /\ songs' = save_song(songs, clusters, song, place)
         /\ train' = [ train EXCEPT !["seed"] =
                      [ IdleRun EXCEPT !.pc = IF n_songs = 1 THEN "seed_clear"
                                              ELSE "seed_songs",
                                       !.run_no = runs + 1,
                                       !.n_clusters = n_clusters,
                                       !.n_songs = n_songs,
                                       !.i = IF n_songs = 1 THEN 0 ELSE 1,
                                       !.old_ids = DOMAIN clusters,
                                       !.old_clusters = clusters,
                                       !.old_songs = songs ] ]
    /\ UNCHANGED << np_dot, callVars, clusters, cluster_seq, imports, req, call, viz >>

\* seed_sample_data.py:133-143: one more turn of the loop of seed_songs
SeedSaveSong ==
    /\ train["seed"].pc = "seed_songs"
    /\ \E song \in SeedProfiles, place \in 1..(Len(songs) + 1) :
         songs' = save_song(songs, clusters, song, place)
    /\ LET run == train["seed"]
           last == run.i + 1 = run.n_songs
       IN  train' = [ train EXCEPT !["seed"] =
                        [ run EXCEPT !.pc = IF last THEN "seed_clear" ELSE "seed_songs",
                                     !.i = IF last THEN 0 ELSE run.i + 1 ] ]
    /\ UNCHANGED << np_dot, callVars, clusters, cluster_seq, runs, imports, req, call, viz >>

\* seed_sample_data.py:245, 151-156: run_clustering after seed_songs begins
\* with clear_clusters
SeedClear ==
    /\ train["seed"].pc = "seed_clear"
    /\ train' = [ train EXCEPT !["seed"].pc = "seed_read" ]
    /\ clusters' = EmptyTable
    /\ songs' = clear_clusters(songs)
    /\ UNCHANGED << np_dot, callVars, cluster_seq, runs, imports, req, call, viz >>

\* seed_sample_data.py:151-156: run_clustering with no song generated before
\* it (--skip-songs, --songs 0): clear_clusters comes first
SeedBegin ==
    /\ train["seed"].pc \in Finished
    /\ runs < MaxRuns
    /\ runs' = runs + 1
    /\ \E n_clusters \in KArgs :
         train' = [ train EXCEPT !["seed"] =
                      [ IdleRun EXCEPT !.pc = "seed_read", !.run_no = runs + 1,
                                       !.n_clusters = n_clusters,
                                       !.old_ids = DOMAIN clusters,
                                       !.old_clusters = clusters,
                                       !.old_songs = songs ] ]
    /\ clusters' = EmptyTable
    /\ songs' = clear_clusters(songs)
    /\ UNCHANGED << np_dot, callVars, cluster_seq, imports, req, call, viz >>

\* seed_sample_data.py:159-186: get_all_songs, the return when there are
\* none, train_clusters and the centroids
SeedReadAndTrain ==
    /\ train["seed"].pc = "seed_read"
    /\ LET rows == get_all_songs(songs)
           run == [ train["seed"] EXCEPT !.songs = rows ]
           X == features_df(rows)
       IN  IF rows = << >>
           THEN train' = [ train EXCEPT !["seed"] = Ended(run, "returned", "") ]
           ELSE \E fit \in FitChoices(X, run.n_clusters) :
                  train' = [ train EXCEPT !["seed"] = Trained(run, fit) ]
    /\ UNCHANGED << np_dot, callVars, storeVars, runs, imports, req, call, viz >>

\* cli.py:90-103, seed_sample_data.py:191-203: one turn of the loop that
\* saves the clusters
SaveCluster(p) ==
    /\ train[p].pc = "save_clusters"
    /\ LET run == train[p]
           centroid == run.centroids[run.i + 1]
           popped == [ key \in DOMAIN centroid \ { "cluster_id" } |-> centroid[key] ]
           row == ClusterRow(popped, generate_cluster_description(popped), 0)
           db_cluster_id == InsertedClusterId(clusters, cluster_seq)
           last == run.i + 1 = Len(run.centroids)
       IN  /\ clusters' = InsertCluster(clusters, cluster_seq, row)
           /\ cluster_seq' = IF db_cluster_id > cluster_seq THEN db_cluster_id
                             ELSE cluster_seq
           /\ train' = [ train EXCEPT ![p] =
                [ run EXCEPT !.cluster_id_map = Append(run.cluster_id_map, db_cluster_id),
                             !.i = IF last THEN 0 ELSE run.i + 1,
                             !.pc = IF last THEN "assign_songs" ELSE "save_clusters" ] ]
    /\ UNCHANGED << np_dot, callVars, songs, runs, imports, req, call, viz >>

\* the counting with the increment lost: every cluster counted once
CountOneOverwriting(cluster_counts, db_cluster_id) ==
    IF \E j \in 1..Len(cluster_counts) : cluster_counts[j].id = db_cluster_id
    THEN cluster_counts
    ELSE Append(cluster_counts, [ id |-> db_cluster_id, count |-> 1 ])

\* cluster_counts[db_cluster_id] = cluster_counts.get(db_cluster_id, 0) + 1
\* on a dictionary kept as its items in insertion order
CountOne(cluster_counts, db_cluster_id) ==
    IF \E j \in 1..Len(cluster_counts) : cluster_counts[j].id = db_cluster_id
    THEN [ j \in 1..Len(cluster_counts) |->
             IF cluster_counts[j].id = db_cluster_id
             THEN [ cluster_counts[j] EXCEPT !.count = cluster_counts[j].count + 1 ]
             ELSE cluster_counts[j] ]
    ELSE Append(cluster_counts, [ id |-> db_cluster_id, count |-> 1 ])

\* cli.py:109-113, seed_sample_data.py:209-214: one turn of the loop that
\* assigns the songs
AssignSong(p) ==
    /\ train[p].pc = "assign_songs"
    /\ LET run == train[p]
           song == run.songs[run.i + 1]
           cluster_idx == run.labels[run.i + 1] - 1
           db_cluster_id == run.cluster_id_map[cluster_idx + 1]
           last == run.i + 1 = Len(run.songs)
       IN  /\ songs' = update_song_cluster(songs, song.id, db_cluster_id)
           /\ train' = [ train EXCEPT ![p] =
                [ run EXCEPT !.cluster_counts = CountOne(run.cluster_counts, db_cluster_id),
                             !.i = IF last THEN 0 ELSE run.i + 1,
                             !.pc = IF last THEN "count_fetch" ELSE "assign_songs" ] ]
    /\ UNCHANGED << np_dot, callVars, clusters, cluster_seq, runs, imports, req, call, viz >>

\* cli.py:116-118, seed_sample_data.py:217-222: get_cluster_by_id in the
\* loop that updates the counts
CountFetch(p) ==
    /\ train[p].pc = "count_fetch"
    /\ LET run == train[p]
           item == run.cluster_counts[run.i + 1]
           existing == get_cluster_by_id(clusters, item.id)
           last == run.i + 1 = Len(run.cluster_counts)
       IN  train' = [ train EXCEPT ![p] =
             IF existing.found
             THEN [ run EXCEPT !.pc = "count_save",
                               !.existing = [ existing EXCEPT !.row.song_count = item.count ] ]
             ELSE IF last THEN Ended(run, "done", "")
             ELSE [ run EXCEPT !.i = run.i + 1 ] ]
    /\ UNCHANGED << np_dot, callVars, storeVars, runs, imports, req, call, viz >>

\* cli.py:119-120, seed_sample_data.py:223-224: save_cluster(existing)
CountSave(p) ==
    /\ train[p].pc = "count_save"
    /\ LET run == train[p]
           last == run.i + 1 = Len(run.cluster_counts)
       IN  /\ clusters' = UpdateCluster(clusters, run.existing.id, run.existing.row)
           /\ train' = [ train EXCEPT ![p] =
                IF last THEN Ended(run, "done", "")
                ELSE [ run EXCEPT !.pc = "count_fetch", !.i = run.i + 1,
                                  !.existing = NoRow ] ]
    /\ UNCHANGED << np_dot, callVars, songs, cluster_seq, runs, imports, req, call, viz >>

\* the catalogs: up to MaxSongs rows in title order, ids in insertion order
Catalogs(longest) ==
    UNION { { [ i \in 1..m |-> [ ProfileList[f[i]] EXCEPT !.id = i ] ] :
              f \in { g \in [ 1..m -> 1..Len(ProfileList) ] :
                        \A i \in 1..(m - 1) : g[i] <= g[i + 1] } } : m \in 0..longest }

\* the catalogs of the runs: every catalog of fewer than MaxSongs rows, rows
\* with the same features included, and the catalogs of MaxSongs rows that
\* have no two such rows
RowFeatures(c) == { [ c[i] EXCEPT !.id = 0 ] : i \in 1..Len(c) }

TrainCatalogs ==
    { c \in Catalogs(MaxSongs) : Len(c) = MaxSongs => Cardinality(RowFeatures(c)) = Len(c) }

InitTrain ==
    /\ np_dot = "seq"      \* no dot product is formed in this specification
    /\ user_vector = ZeroVector
    /\ centroids = << >>
    /\ nearest = NotCalledNearest
    /\ adjacent = NotCalledAdjacent
    /\ cand_songs = << >>
    /\ ranked = NotCalledRanked
    /\ songs \in TrainCatalogs
    /\ clusters = EmptyTable
    /\ cluster_seq = 0
    /\ train = [ p \in TrainerIds |-> IdleRun ]
    /\ runs = 0
    /\ imports = [ p \in ImportIds |-> IdleImport ]
    /\ req = IdleRequest
    /\ call = NotCalled
    /\ viz = IdleViz

\* one run at a time
NextTrain ==
    \/ train["seed"].pc \in Finished /\ CliBegin
    \/ CliClearAndTrain
    \/ train["cli"].pc \in Finished /\ SeedBegin
    \/ train["cli"].pc \in Finished /\ SeedSongsBegin
    \/ SeedSaveSong
    \/ SeedClear
    \/ SeedReadAndTrain
    \/ \E p \in TrainerIds : SaveCluster(p)
    \/ \E p \in TrainerIds : AssignSong(p)
    \/ \E p \in TrainerIds : CountFetch(p)
    \/ \E p \in TrainerIds : CountSave(p)

SpecTrain == InitTrain /\ [][NextTrain]_vars

(***************************************************************************)
(* recommendations/engine.py: get_recommendations, one step per awaited    *)
(* database call.  reads counts the calls.                                 *)
(***************************************************************************)
DEFAULT_LIMIT == 20
ReqLimits == { 1, DEFAULT_LIMIT }

\* engine.py:155-159: the centroid dictionaries of the clusters, each with
\* the cluster's id under "cluster_id"
BuildCentroids(cluster_list) ==
    [ i \in 1..Len(cluster_list) |-> WithId(cluster_list[i].row.centroid, cluster_list[i].id) ]

\* a guard that lets a request go on over no clusters
never_empty(cluster_list) == FALSE

\* engine.py:147: `if not clusters`
no_clusters(cluster_list) == cluster_list = << >>

RECURSIVE Without(_, _)
Without(ids, id) ==
    IF ids = << >> THEN << >>
    ELSE (IF Head(ids) # id THEN << Head(ids) >> ELSE << >>) \o Without(Tail(ids), id)

\* the first two ids, the matched cluster's among them
adjacent_ids_keeping_matched(ids, matched_cluster_id) == Take(ids, 2)

\* engine.py:174: [cid for cid in adjacent_ids if cid != matched_cluster_id][:2]
adjacent_ids_of(ids, matched_cluster_id) == Take(Without(ids, matched_cluster_id), 2)

\* a table whose rows are the dictionaries the request writes into
cluster_table_aliased(cluster_table) ==
    [ id \in DOMAIN cluster_table |->
        [ cluster_table[id] EXCEPT !.centroid = WithId(@, id) ] ]

\* engine.py:156-158: cluster.centroid parses centroid_json anew on every
\* access (models.py:89-92), so centroid["cluster_id"] = cluster.id writes
\* into a dictionary of the request's own and the table is as it was
cluster_table_after_build(cluster_table) == cluster_table

\* engine.py:145-162: get_all_clusters, the early return, find_nearest_cluster
ReqGetAllClusters ==
    /\ req.pc \in { "idle", "done" }
    /\ \E uv \in QueryVectors, limit \in ReqLimits :
         LET cluster_list == get_all_clusters(clusters)
             begun == [ IdleRequest EXCEPT !.limit = limit, !.reads = 1 ]
         IN  /\ user_vector' = uv
             /\ adjacent' = NotCalledAdjacent
             /\ cand_songs' = << >>
             /\ ranked' = NotCalledRanked
             /\ IF no_clusters(cluster_list)
                THEN /\ centroids' = << >>
                     /\ nearest' = NotCalledNearest
                     /\ req' = [ begun EXCEPT !.pc = "done" ]
                     /\ UNCHANGED clusters
                ELSE /\ centroids' = BuildCentroids(cluster_list)
                     /\ nearest' = [ called |-> TRUE,
                                     result |-> find_nearest_cluster(uv, centroids') ]
                     /\ req' = [ begun EXCEPT !.pc = "get_matched" ]
                     /\ clusters' = cluster_table_after_build(clusters)
    /\ UNCHANGED << np_dot, songs, cluster_seq, train, runs, imports, call, viz >>

\* engine.py:165: get_cluster_by_id(matched_cluster_id)
ReqGetMatchedCluster ==
    /\ req.pc = "get_matched"
    /\ req' = [ req EXCEPT !.pc = "get_songs", !.reads = req.reads + 1,
                  !.matched_cluster = get_cluster_by_id(clusters, nearest.result.cluster_id) ]
    /\ UNCHANGED << np_dot, callVars, storeVars, train, runs, imports, call, viz >>

\* engine.py:168-174: get_songs_by_cluster, rank_songs_in_cluster,
\* get_adjacent_clusters and the filter
ReqGetSongs ==
    /\ req.pc = "get_songs"
    /\ cand_songs' = get_songs_by_cluster(songs, nearest.result.cluster_id, 0)
    /\ ranked' = [ called |-> TRUE, limit |-> req.limit,
                   out |-> rank_songs_in_cluster(user_vector, cand_songs', req.limit) ]
    /\ adjacent' = [ called |-> TRUE, n |-> 3,
                     ids |-> get_adjacent_clusters(user_vector, centroids, 3) ]
    /\ LET adjacent_ids == adjacent_ids_of(adjacent'.ids, nearest.result.cluster_id)
       IN  req' = [ req EXCEPT !.reads = req.reads + 1, !.adjacent_ids = adjacent_ids,
                      !.i = 0,
                      !.pc = IF adjacent_ids = << >> THEN "matched_sample"
                             ELSE "adj_cluster" ]
    /\ UNCHANGED << np_dot, user_vector, centroids, nearest, storeVars, train, runs, imports,
                    call, viz >>

\* engine.py:177-179: get_cluster_by_id of the next adjacent id
ReqAdjCluster ==
    /\ req.pc = "adj_cluster"
    /\ LET cluster == get_cluster_by_id(clusters, req.adjacent_ids[req.i + 1])
           last == req.i + 1 = Len(req.adjacent_ids)
       IN  req' = IF cluster.found
                  THEN [ req EXCEPT !.reads = req.reads + 1, !.cluster = cluster,
                                    !.pc = "adj_sample" ]
                  ELSE [ req EXCEPT !.reads = req.reads + 1, !.i = req.i + 1,
                                    !.pc = IF last THEN "matched_sample" ELSE "adj_cluster" ]
    /\ UNCHANGED << np_dot, callVars, storeVars, train, runs, imports, call, viz >>

\* engine.py:181-185: the preview of an adjacent cluster
ReqAdjSample ==
    /\ req.pc = "adj_sample"
    /\ LET sample_songs == get_songs_by_cluster(songs, req.cluster.id, 3)
           last == req.i + 1 = Len(req.adjacent_ids)
       IN  req' = [ req EXCEPT !.reads = req.reads + 1, !.i = req.i + 1, !.cluster = NoRow,
                      !.adjacent_clusters =
                          Append(req.adjacent_clusters,
                                 [ id |-> req.cluster.id, row |-> req.cluster.row,
                                   sample_songs |-> sample_songs ]),
                      !.pc = IF last THEN "matched_sample" ELSE "adj_cluster" ]
    /\ UNCHANGED << np_dot, callVars, storeVars, train, runs, imports, call, viz >>

\* engine.py:188-198: the preview of the matched cluster and the result, with
\* round(distance, 3) in thousandths
ReqMatchedSample ==
    /\ req.pc = "matched_sample"
    /\ LET matched_sample == get_songs_by_cluster(songs, nearest.result.cluster_id, 5)
           matched_cluster_data ==
               [ none |-> FALSE, found |-> req.matched_cluster.found,
                 id |-> req.matched_cluster.id, row |-> req.matched_cluster.row,
                 distance |-> RoundDistance(user_vector,
                                            best_centroid(user_vector, centroids)),
                 sample_songs |-> matched_sample ]
       IN  req' = [ IdleRequest EXCEPT !.pc = "done", !.limit = req.limit,
                      !.reads = req.reads + 1,
                      !.result = [ matched_cluster |-> matched_cluster_data,
                                   songs |-> ranked.out,
                                   adjacent_clusters |-> req.adjacent_clusters ] ]
    /\ UNCHANGED << np_dot, callVars, storeVars, train, runs, imports, call, viz >>

Quiet == \A p \in TrainerIds : train[p].pc \in Finished

\* the catalogs behind the requests: the catalogs of up to MaxCatalog rows
\* in which at most one row has the features of another, in the longer ones
\* the first row
RecoCatalogs ==
    { c \in Catalogs(MaxCatalog) :
        /\ Cardinality(RowFeatures(c)) >= Len(c) - 1
        /\ Len(c) > MaxSongs => Cardinality(RowFeatures(SubSeq(c, 1, 2))) = 1 }

InitReco ==
    /\ np_dot \in DotOrders
    /\ user_vector = ZeroVector
    /\ centroids = << >>
    /\ nearest = NotCalledNearest
    /\ adjacent = NotCalledAdjacent
    /\ cand_songs = << >>
    /\ ranked = NotCalledRanked
    /\ songs \in RecoCatalogs
    /\ clusters = EmptyTable
    /\ cluster_seq = 0
    /\ train = [ p \in TrainerIds |-> IdleRun ]
    /\ runs = 0
    /\ imports = [ p \in ImportIds |-> IdleImport ]
    /\ req = IdleRequest
    /\ call = NotCalled
    /\ viz = IdleViz

\* requests over the store one `cli.py cluster` run leaves, or over the
\* untrained store
NextReco ==
    \/ runs = 0 /\ req.pc = "idle" /\ CliBegin
    \/ CliClearAndTrain
    \/ SaveCluster("cli")
    \/ AssignSong("cli")
    \/ CountFetch("cli")
    \/ CountSave("cli")
    \/ Quiet /\ req.pc = "idle" /\ ReqGetAllClusters
    \/ ReqGetMatchedCluster
    \/ ReqGetSongs
    \/ ReqAdjCluster
    \/ ReqAdjSample
    \/ ReqMatchedSample

SpecReco == InitReco /\ [][NextReco]_vars

(***************************************************************************)
(* get_recommendations while `cli.py cluster` runs: the request's awaited  *)
(* database calls and the run's fall in any order.                         *)
(***************************************************************************)
MaxRaceSongs == 3

\* catalogs of MaxRaceSongs songs, no two with the same features
RaceCatalogs ==
    { c \in Catalogs(MaxRaceSongs) :
        /\ Len(c) = MaxRaceSongs
        /\ \A i, j \in 1..Len(c) : i # j => [ c[i] EXCEPT !.id = 0 ] # [ c[j] EXCEPT !.id = 0 ] }

RaceStore ==
    /\ user_vector = ZeroVector
    /\ centroids = << >>
    /\ nearest = NotCalledNearest
    /\ adjacent = NotCalledAdjacent
    /\ cand_songs = << >>
    /\ ranked = NotCalledRanked
    /\ songs \in RaceCatalogs
    /\ clusters = EmptyTable
    /\ cluster_seq = 0
    /\ train = [ p \in TrainerIds |-> IdleRun ]
    /\ runs = 0
    /\ imports = [ p \in ImportIds |-> IdleImport ]
    /\ req = IdleRequest
    /\ call = NotCalled
    /\ viz = IdleViz

\* the requests race with the runs over the catalog of the first
\* MaxRaceSongs profiles, under every order of the dot product
InitRace ==
    /\ np_dot \in DotOrders
    /\ RaceStore
    /\ \A i \in 1..Len(songs) : [ songs[i] EXCEPT !.id = 0 ] = ProfileList[i]

\* one request, begun at any moment of the first or second run
NextRace ==
    \/ CliBegin
    \/ CliClearAndTrain
    \/ SaveCluster("cli")
    \/ AssignSong("cli")
    \/ CountFetch("cli")
    \/ CountSave("cli")
    \/ req.pc = "idle" /\ ReqGetAllClusters
    \/ ReqGetMatchedCluster
    \/ ReqGetSongs
    \/ ReqAdjCluster
    \/ ReqAdjSample
    \/ ReqMatchedSample

SpecRace == InitRace /\ [][NextRace]_vars

(***************************************************************************)
(* Two invocations of `cli.py cluster` against the same store: their       *)
(* awaited database calls fall in any order.                               *)
(***************************************************************************)
InitOverlap ==
    /\ np_dot = "seq"      \* no dot product is formed in this specification
    /\ RaceStore

NextOverlap ==
    \/ \E p \in CliIds : CliBeginOf(p)
    \/ \E p \in CliIds : CliClearAndTrainOf(p)
    \/ \E p \in CliIds : SaveCluster(p)
    \/ \E p \in CliIds : AssignSong(p)
    \/ \E p \in CliIds : CountFetch(p)
    \/ \E p \in CliIds : CountSave(p)

SpecOverlap == InitOverlap /\ [][NextOverlap]_vars

(***************************************************************************)
(* api/routes.py: get_clusters_visualization, one step per awaited         *)
(* database call, and reduce_for_visualization called on its own.          *)
(***************************************************************************)
\* routes.py:138: get_all_songs
VizGetAllSongs ==
    /\ viz.pc = "idle"
    /\ viz' = [ IdleViz EXCEPT !.pc = "get_clusters", !.songs = get_all_songs(songs) ]
    /\ UNCHANGED << np_dot, callVars, storeVars, train, runs, imports, req, call >>

\* the rows of the response: routes.py:182-192
VizSongRows(rows, coords) ==
    [ i \in 1..Len(rows) |->
        [ id |-> rows[i].id, xy |-> coords[i], cluster_id |-> rows[i].cluster_id ] ]

\* routes.py:139-194: get_all_clusters, the early return, both projections
VizGetAllClustersAndProject ==
    /\ viz.pc = "get_clusters"
    /\ LET cluster_list == get_all_clusters(clusters)
           X == features_df(viz.songs)
           reduced == reduce_for_visualization(X, << >>)
           centroid_list == BuildCentroids(cluster_list)
           projected == reduce_centroids_for_visualization(centroid_list, X, reduced.fits)
       IN  viz' =
             IF viz.songs = << >> THEN [ viz EXCEPT !.pc = "done" ]
             ELSE IF reduced.raised
             THEN [ viz EXCEPT !.pc = "failed", !.error = reduced.error ]
             ELSE IF centroid_list = << >>
             THEN [ viz EXCEPT !.pc = "done", !.fits = reduced.fits,
                      !.result = [ songs |-> VizSongRows(viz.songs, reduced.coords),
                                   centroids |-> << >> ] ]
             ELSE IF projected.raised
             THEN [ viz EXCEPT !.pc = "failed", !.error = projected.error,
                               !.fits = projected.fits ]
             ELSE [ viz EXCEPT !.pc = "done", !.fits = projected.fits,
                      !.result = [ songs |-> VizSongRows(viz.songs, reduced.coords),
                                   centroids |-> projected.coords ] ]
    /\ UNCHANGED << np_dot, callVars, storeVars, train, runs, imports, req, call >>

\* coords = reduce_for_visualization(df) on the frame of the catalog
CallReduceForVisualization ==
    /\ ~call.called
    /\ runs = 0 /\ viz.pc = "idle"
    /\ LET X == features_df(get_all_songs(songs))
           out == reduce_for_visualization(X, << >>)
       IN  call' = [ called |-> TRUE, fn |-> "reduce_for_visualization", X |-> X,
                     raised |-> out.raised, error |-> out.error, fits |-> out.fits,
                     coords |-> out.coords ]
    /\ UNCHANGED << np_dot, callVars, storeVars, train, runs, imports, req, viz >>

InitViz ==
    /\ np_dot = "seq"      \* no dot product is formed in this specification
    /\ user_vector = ZeroVector
    /\ centroids = << >>
    /\ nearest = NotCalledNearest
    /\ adjacent = NotCalledAdjacent
    /\ cand_songs = << >>
    /\ ranked = NotCalledRanked
    /\ songs \in Catalogs(MaxSongs)
    /\ clusters = EmptyTable
    /\ cluster_seq = 0
    /\ train = [ p \in TrainerIds |-> IdleRun ]
    /\ runs = 0
    /\ imports = [ p \in ImportIds |-> IdleImport ]
    /\ req = IdleRequest
    /\ call = NotCalled
    /\ viz = IdleViz

\* a visualization request over the store one `cli.py cluster` run leaves,
\* or over the untrained store
NextViz ==
    \/ runs = 0 /\ viz.pc = "idle" /\ ~call.called /\ CliBegin
    \/ CliClearAndTrain
    \/ SaveCluster("cli")
    \/ AssignSong("cli")
    \/ CountFetch("cli")
    \/ CountSave("cli")
    \/ Quiet /\ VizGetAllSongs
    \/ VizGetAllClustersAndProject
    \/ CallReduceForVisualization

SpecViz == InitViz /\ [][NextViz]_vars

(***************************************************************************)
(* clustering/cluster.py: train_clusters with get_cluster_centroids, and   *)
(* find_optimal_k, called on the frame of an arbitrary catalog.            *)
(***************************************************************************)
\* the ranges handed to find_optimal_k: range(start, stop, step) and the
\* default range(4, 15)
KRanges ==
    { [ start |-> a, stop |-> b, step |-> c ] :
        a \in 0..(MaxSongs + 1), b \in 0..(MaxSongs + 2), c \in { 1, 0 - 1 } }
    \cup { DefaultKRange }

\* the candidates of a range that find_optimal_k may fit a model for
Candidates(X, k_range) == { k \in SeqRange(RangeSeq(k_range)) : k >= 1 /\ k < Len(X) }

InitCluster ==
    /\ np_dot = "seq"      \* no dot product is formed in this specification
    /\ user_vector = ZeroVector
    /\ centroids = << >>
    /\ nearest = NotCalledNearest
    /\ adjacent = NotCalledAdjacent
    /\ cand_songs = << >>
    /\ ranked = NotCalledRanked
    /\ songs \in Catalogs(MaxSongs)
    /\ clusters = EmptyTable
    /\ cluster_seq = 0
    /\ train = [ p \in TrainerIds |-> IdleRun ]
    /\ runs = 0
    /\ imports = [ p \in ImportIds |-> IdleImport ]
    /\ req = IdleRequest
    /\ call = NotCalled
    /\ viz = IdleViz

\* what a call of train_clusters followed by get_cluster_centroids gave
TrainOutcome(out) ==
    [ called |-> TRUE, fn |-> "", X |-> << >>, n_clusters |-> 0, raised |-> out.raised,
      error |-> out.error, labels |-> out.labels,
      centroids |-> IF out.raised THEN << >> ELSE get_cluster_centroids(out.centers),
      score |-> out.score ]

\* what a call of find_optimal_k gave
OptimalKOutcome(out) ==
    [ called |-> TRUE, fn |-> "find_optimal_k", X |-> << >>, k_range |-> DefaultKRange,
      draw |-> << >>, raised |-> out.raised, error |-> out.error, best_k |-> out.best_k ]

\* model, silhouette = train_clusters(df, n_clusters);
\* centroids = get_cluster_centroids(model)
CallTrainClusters ==
    /\ ~call.called
    /\ LET X == features_df(get_all_songs(songs))
       IN  \E n_clusters \in (0 - 1)..(MaxSongs + 1) :
             \E fit \in FitChoices(X, n_clusters) :
               call' = [ TrainOutcome(train_clusters(X, n_clusters, fit)) EXCEPT
                           !.fn = "train_clusters", !.X = X, !.n_clusters = n_clusters ]
    /\ UNCHANGED << np_dot, callVars, storeVars, train, runs, imports, req, viz >>

\* find_optimal_k(df, k_range); draw holds, for every candidate below
\* len(X), the model KMeans gives for it
CallFindOptimalK ==
    /\ ~call.called
    /\ LET X == features_df(get_all_songs(songs))
       IN  \E k_range \in KRanges :
             \E draw \in DrawChoices(X, Candidates(X, k_range)) :
               call' = [ OptimalKOutcome(find_optimal_k(X, k_range, draw)) EXCEPT
                           !.X = X, !.k_range = k_range, !.draw = draw ]
    /\ UNCHANGED << np_dot, callVars, storeVars, train, runs, imports, req, viz >>

NextCluster ==
    \/ CallTrainClusters
    \/ CallFindOptimalK

SpecCluster == InitCluster /\ [][NextCluster]_vars

(***************************************************************************)
(* clustering/describe.py: generate_cluster_description and                *)
(* get_cluster_mood_emoji called on an arbitrary centroid dictionary: each *)
(* key either missing or at a value between 0.0 and 1.0 taken around the   *)
(* thresholds of the rules.  Levels are in twentieths of 1.0.              *)
(***************************************************************************)
Twentieths(n) == (n * ONE) \div 20

NoKey == [ k \in {} |-> 0 ]

KeyOptions(key, levels) ==
    { NoKey } \cup { [ k \in { key } |-> Twentieths(n) ] : n \in levels }

Merge(d1, d2) ==
    [ k \in DOMAIN d1 \cup DOMAIN d2 |-> IF k \in DOMAIN d1 THEN d1[k] ELSE d2[k] ]

InitDescribe ==
    /\ np_dot = "seq"      \* no dot product is formed in this specification
    /\ user_vector = ZeroVector
    /\ \E e \in KeyOptions("energy", { 0, 6, 7, 9, 11, 13, 14, 20 }),
          d \in KeyOptions("danceability", { 0, 6, 13, 14, 20 }),
          a \in KeyOptions("acousticness", { 0, 6, 13, 14, 20 }),
          v \in KeyOptions("valence", { 0, 6, 7, 11, 13, 14, 20 }),
          i \in KeyOptions("instrumentalness", { 0, 13, 14, 20 }),
          l \in KeyOptions("loudness", { 0, 12, 20 }),
          b \in KeyOptions("bpm_normalized", { 0, 7, 14, 20 }) :
            centroids = << Merge(e, Merge(d, Merge(a, Merge(v, Merge(i, Merge(l, b)))))) >>
    /\ nearest = NotCalledNearest
    /\ adjacent = NotCalledAdjacent
    /\ cand_songs = << >>
    /\ ranked = NotCalledRanked
    /\ songs = << >>
    /\ clusters = EmptyTable
    /\ cluster_seq = 0
    /\ train = [ p \in TrainerIds |-> IdleRun ]
    /\ runs = 0
    /\ imports = [ p \in ImportIds |-> IdleImport ]
    /\ req = IdleRequest
    /\ call = NotCalled
    /\ viz = IdleViz

CallGenerateClusterDescription ==
    /\ ~call.called
    /\ call' = [ called |-> TRUE, fn |-> "generate_cluster_description",
                 centroid |-> centroids[1],
                 description |-> generate_cluster_description(centroids[1]),
                 emoji |-> "" ]
    /\ UNCHANGED << np_dot, user_vector, centroids, nearest, adjacent, cand_songs, ranked,
                    songs, clusters, cluster_seq, train, runs, imports, req, viz >>

CallGetClusterMoodEmoji ==
    /\ ~call.called
    /\ call' = [ called |-> TRUE, fn |-> "get_cluster_mood_emoji",
                 centroid |-> centroids[1],
                 description |-> << >>,
                 emoji |-> get_cluster_mood_emoji(centroids[1]) ]
    /\ UNCHANGED << np_dot, user_vector, centroids, nearest, adjacent, cand_songs, ranked,
                    songs, clusters, cluster_seq, train, runs, imports, req, viz >>

NextDescribe == CallGenerateClusterDescription \/ CallGetClusterMoodEmoji

SpecDescribe == InitDescribe /\ [][NextDescribe]_vars

(***************************************************************************)
(* quiz/scoring.py: calculate_user_vector, on the weights of the options   *)
(* the answers select (an answer naming an unknown question or option      *)
(* contributes nothing, scoring.py:37-47).  A weight holds GRID for 1.0;   *)
(* the result, an average of up to MaxAnswers weights, holds ONE for 1.0.  *)
(***************************************************************************)
MaxAnswers == 2     \* answers of one quiz submission

RECURSIVE FeatureValues(_, _)
FeatureValues(weights, feature) ==
    IF weights = << >> THEN << >>
    ELSE (IF feature \in DOMAIN Head(weights) THEN << Head(weights)[feature] >> ELSE << >>)
         \o FeatureValues(Tail(weights), feature)

calculate_user_vector(weights) ==
    [ feature \in FeatureKeySet |->
        LET values == FeatureValues(weights, feature)
        IN  IF values # << >> THEN ToOne(SumSeq(values)) \div Len(values) ELSE HALF ]

(***************************************************************************)
(* feature_extraction/spotify_features.py: normalize_spotify_features and  *)
(* spotify_features_to_song_dict, and the Song import_spotify_track builds *)
(* from the dictionary (api/routes.py:457-479).  Audio features hold the   *)
(* tempo in bpm, the loudness in dB and the other features in ONE units;   *)
(* no audio features (None) is the empty dictionary.  ONE is a multiple of *)
(* 60 and the tempos are multiples of 20, so the two divisions are exact.  *)
(***************************************************************************)
Clamp(v, lo, hi) == IF v < lo THEN lo ELSE IF v > hi THEN hi ELSE v

DEFAULT_TEMPO == 120
DEFAULT_LOUDNESS_DB == 0 - 10

normalize_spotify_features(spotify_features) ==
    LET tempo       == Get(spotify_features, "tempo", DEFAULT_TEMPO)
        loudness_db == Get(spotify_features, "loudness", DEFAULT_LOUDNESS_DB)
    IN  [ bpm_normalized   |-> Clamp(((tempo - 40) * ONE) \div 160, 0, ONE),
          energy           |-> Get(spotify_features, "energy", HALF),
          danceability     |-> Get(spotify_features, "danceability", HALF),
          acousticness     |-> Get(spotify_features, "acousticness", HALF),
          valence          |-> Get(spotify_features, "valence", HALF),
          instrumentalness |-> Get(spotify_features, "instrumentalness", HALF),
          loudness         |-> Clamp(((loudness_db + 60) * ONE) \div 60, 0, ONE),
          bpm              |-> tempo,
          loudness_db      |-> loudness_db ]

\* the song dictionary: the track's columns, then the normalized features,
\* or 0 in every feature when there are no audio features (None or empty)
spotify_features_to_song_dict(track, audio_features, cluster_id) ==
    IF audio_features # NoKey
    THEN LET normalized == normalize_spotify_features(audio_features)
         IN  [ spotify_id |-> Get(track, "spotify_id", ""),
               popularity |-> Get(track, "popularity", 0),
               cluster_id |-> cluster_id,
               bpm |-> normalized.bpm, energy |-> normalized.energy,
               danceability |-> normalized.danceability,
               acousticness |-> normalized.acousticness, valence |-> normalized.valence,
               instrumentalness |-> normalized.instrumentalness,
               loudness |-> normalized.loudness ]
    ELSE [ spotify_id |-> Get(track, "spotify_id", ""),
           popularity |-> Get(track, "popularity", 0),
           cluster_id |-> cluster_id,
           bpm |-> 0, energy |-> 0, danceability |-> 0, acousticness |-> 0, valence |-> 0,
           instrumentalness |-> 0, loudness |-> 0 ]

\* Song(...) of routes.py:457-479: every key read is in the dictionary; the
\* cluster_id is the one of the request
ImportedSong(song_dict, cluster_id) ==
    [ id |-> 0,
      spotify_id |-> song_dict.spotify_id,
      bpm |-> Get(song_dict, "bpm", DEFAULT_TEMPO),
      energy |-> Get(song_dict, "energy", HALF),
      danceability |-> Get(song_dict, "danceability", HALF),
      acousticness |-> Get(song_dict, "acousticness", HALF),
      valence |-> Get(song_dict, "valence", HALF),
      instrumentalness |-> Get(song_dict, "instrumentalness", HALF),
      loudness |-> Get(song_dict, "loudness", HALF),
      popularity |-> Get(song_dict, "popularity", 0),
      cluster_id |-> cluster_id ]

(***************************************************************************)
(* services/spotify.py: what SpotifyService makes of Spotify's answers.    *)
(***************************************************************************)
\* _format_track (spotify.py:211-235): the columns of the track, popularity
\* 0 when the answer has none
format_track(track) ==
    [ spotify_id |-> track.id, popularity |-> Get(track, "popularity", 0) ]

\* _format_audio_features (spotify.py:237-254): every key, 0 for a key the
\* answer lacks
format_audio_features(features) ==
    [ tempo            |-> Get(features, "tempo", 0),
      loudness         |-> Get(features, "loudness", 0),
      energy           |-> Get(features, "energy", 0),
      danceability     |-> Get(features, "danceability", 0),
      acousticness     |-> Get(features, "acousticness", 0),
      valence          |-> Get(features, "valence", 0),
      instrumentalness |-> Get(features, "instrumentalness", 0) ]

\* get_track_with_features (spotify.py:186-209): None (NoKey) for a track
\* Spotify does not know, else the formatted track, with the formatted
\* audio features when Spotify has them
get_track_with_features(track, features) ==
    IF track = NoKey THEN NoKey
    ELSE IF features = NoKey THEN format_track(track)
    ELSE Merge(format_track(track), [ audio_features |-> format_audio_features(features) ])

(***************************************************************************)
(* The store under every writer the repository has: `cli.py cluster` and   *)
(* the seed script (one clustering run at a time), `cli.py extract`        *)
(* (batch_extract_features) and two POST /spotify/import/{track_id}        *)
(* requests (routes.py import_spotify_track), one step per awaited         *)
(* database call.                                                          *)
(***************************************************************************)
MaxClusterIdArg == 1   \* largest cluster_id an import request names
MaxStored == 3         \* largest songs table a writer adds a row to
MaxStoreRuns == 1      \* clustering runs next to the other writers

TrackIds == { "track_1" }                      \* the track ids of the requests
ClusterIdArgs == { NULL } \cup 1..MaxClusterIdArg   \* the cluster_id query parameter

\* Spotify's answers for a track: none (NoKey), or the track
TrackAnswers(track_id) ==
    { NoKey, [ id |-> track_id, popularity |-> 50 ] }

\* Spotify's answers for its audio features: none (NoKey), or the features,
\* here without some of the keys
FeatureAnswers == { NoKey, [ tempo |-> 200, loudness |-> 0 - 30, energy |-> ONE ] }

\* routes.py:447-479: the Song of the import
SongOfTrack(track_data, cluster_id) ==
    ImportedSong(spotify_features_to_song_dict(track_data,
                                               Get(track_data, "audio_features", NoKey),
                                               cluster_id),
                 cluster_id)

\* routes.py:434-479: the track is looked up in the songs table
\* (get_song_by_spotify_id), reported when it is there, else fetched from
\* Spotify and converted
ImportLookup(p) ==
    /\ imports[p].pc = "idle"
    /\ \E track_id \in TrackIds, cluster_id \in ClusterIdArgs :
         IF get_song_by_spotify_id(songs, track_id).found
         THEN imports' = [ imports EXCEPT ![p].pc = "exists" ]
         ELSE \E track \in TrackAnswers(track_id), features \in FeatureAnswers :
                LET track_data == get_track_with_features(track, features)
                IN  IF track_data = NoKey
                    THEN imports' = [ imports EXCEPT ![p].pc = "failed",
                                                     ![p].error = "HTTPException" ]
                    ELSE imports' = [ imports EXCEPT
                                        ![p].pc = "save_select",
                                        ![p].song = SongOfTrack(track_data, cluster_id) ]
    /\ UNCHANGED << np_dot, callVars, storeVars, train, runs, req, call, viz >>

\* routes.py:483, database.py:145-152: save_song looks for the row of the
\* spotify_id
ImportSaveSelect(p) ==
    /\ imports[p].pc = "save_select"
    /\ imports' = [ imports EXCEPT ![p].pc = "save_write",
                                   ![p].song = save_song_select(songs, imports[p].song) ]
    /\ UNCHANGED << np_dot, callVars, storeVars, train, runs, req, call, viz >>

\* database.py:154-192: save_song writes the row; an IntegrityError becomes
\* the HTTPException of routes.py:497-498
ImportSaveWrite(p) ==
    /\ imports[p].pc = "save_write"
    /\ LET song == imports[p].song
       IN  IF SaveRaises(songs, song)
           THEN /\ imports' = [ imports EXCEPT ![p].pc = "failed",
                                               ![p].error = "IntegrityError" ]
                /\ UNCHANGED songs
           ELSE /\ imports' = [ imports EXCEPT ![p].pc = "imported" ]
                /\ \E place \in Places(songs, song) :
                     songs' = save_song_write(songs, song, place)
    /\ UNCHANGED << np_dot, callVars, clusters, cluster_seq, train, runs, req, call, viz >>

\* process_audio_file (batch_extract.py:39-76): the Song of an audio file,
\* with the features extracted from it, no spotify_id and no cluster.  The
\* features are those of _mock_features (extract.py:121-134), a tempo drawn
\* from 60 to 180 and every other feature from 0 to 1: the draws at the low
\* end and those in the middle
ExtractedSongs ==
    { SongRow(0, 60, 0, 0, 0, 0, 0, 0),
      SongRow(0, 120, GRID_HALF, GRID_HALF, GRID_HALF, GRID_HALF, GRID_HALF, GRID_HALF) }

\* batch_extract_features (batch_extract.py:105-114) under `cli.py extract`:
\* one turn of the loop, process_audio_file and save_song_features
BatchExtractSave ==
    /\ Len(songs) < MaxStored
    /\ \E song \in ExtractedSongs :
         \E place \in Places(songs, song) :
           songs' = save_song(songs, clusters, song, place)
    /\ UNCHANGED << np_dot, callVars, clusters, cluster_seq, train, runs, imports, req, call, viz >>

\* the store before the writers: a catalog of two songs with different
\* features, no clusters
StoreCatalogs ==
    { SubSeq(c, 1, Len(c) - 1) : c \in RaceCatalogs }

InitStore ==
    /\ np_dot = "seq"      \* no dot product is formed in this specification
    /\ user_vector = ZeroVector
    /\ centroids = << >>
    /\ nearest = NotCalledNearest
    /\ adjacent = NotCalledAdjacent
    /\ cand_songs = << >>
    /\ ranked = NotCalledRanked
    /\ songs \in StoreCatalogs
    /\ clusters = EmptyTable
    /\ cluster_seq = 0
    /\ train = [ p \in TrainerIds |-> IdleRun ]
    /\ runs = 0
    /\ imports = [ p \in ImportIds |-> IdleImport ]
    /\ req = IdleRequest
    /\ call = NotCalled
    /\ viz = IdleViz

\* On a catalog of two songs the seed script can generate one song before
\* the table has MaxSeeded rows: the loop of seed_songs has the one turn of
\* SeedSongsBegin.
NextStore ==
    \/ runs < MaxStoreRuns /\ CliBegin
    \/ CliClearAndTrain
    \/ runs < MaxStoreRuns /\ SeedBegin
    \/ runs < MaxStoreRuns /\ SeedSongsBegin
    \/ SeedClear
    \/ SeedReadAndTrain
    \/ \E p \in { "cli", "seed" } : SaveCluster(p)
    \/ \E p \in { "cli", "seed" } : AssignSong(p)
    \/ \E p \in { "cli", "seed" } : CountFetch(p)
    \/ \E p \in { "cli", "seed" } : CountSave(p)
    \/ BatchExtractSave
    \/ \E p \in ImportIds : ImportLookup(p)
    \/ \E p \in ImportIds : ImportSaveSelect(p)
    \/ \E p \in ImportIds :
         (imports[p].song.id # 0 \/ Len(songs) < MaxStored) /\ ImportSaveWrite(p)

SpecStore == InitStore /\ [][NextStore]_vars

(***************************************************************************)
(* The sources of a feature vector on arbitrary inputs: a query mapping    *)
(* and a centroid record with keys missing or unknown, the weights of a    *)
(* quiz submission, and the audio features of an imported track, each of   *)
(* tempo, loudness, energy and valence present or missing.                 *)
(***************************************************************************)
WithUnknownKey(d, one) ==
    [ k \in DOMAIN d \cup { "speechiness" } |-> IF k = "speechiness" THEN one ELSE d[k] ]

OptionWeights ==
    UNION { [ S -> { 0, GRID } ] : S \in SUBSET VaryingKeys }
    \cup { [ k \in { "speechiness" } |-> GRID ] }

WeightLists == UNION { [ 1..m -> OptionWeights ] : m \in 0..MaxAnswers }

\* the track dictionaries: with and without a popularity
Tracks == { format_track([ id |-> "track_1", popularity |-> 50 ]), [ spotify_id |-> "track_1" ] }

AudioFeatures ==
    { Merge(Merge(t, l), f) :
        t \in { NoKey } \cup { [ tempo |-> v ] : v \in { 100, 200 } },
        l \in { NoKey } \cup { [ loudness |-> v ] : v \in { 0 - 60, 0 } },
        f \in UNION { [ S -> { 0, ONE } ] : S \in SUBSET { "energy", "valence" } } }

InitDefaults ==
    /\ np_dot = "seq"      \* no dot product is formed in this specification
    /\ user_vector \in QueryVectors \cup { WithUnknownKey(d, GRID) : d \in QueryVectors }
    /\ centroids \in { << d >> : d \in PartialVectors(ONE) }
                       \cup { << WithUnknownKey(d, ONE) >> : d \in PartialVectors(ONE) }
    /\ nearest = NotCalledNearest
    /\ adjacent = NotCalledAdjacent
    /\ cand_songs = << >>
    /\ ranked = NotCalledRanked
    /\ songs = << >>
    /\ clusters = EmptyTable
    /\ cluster_seq = 0
    /\ train = [ p \in TrainerIds |-> IdleRun ]
    /\ runs = 0
    /\ imports = [ p \in ImportIds |-> IdleImport ]
    /\ req = IdleRequest
    /\ call = NotCalled
    /\ viz = IdleViz

CallVectorToArray ==
    /\ ~call.called
    /\ call' = [ called |-> TRUE, fn |-> "vector_to_array", source |-> user_vector,
                 out |-> vector_to_array(user_vector) ]
    /\ UNCHANGED << np_dot, user_vector, centroids, nearest, adjacent, cand_songs, ranked,
                    songs, clusters, cluster_seq, train, runs, imports, req, viz >>

\* the array find_nearest_cluster builds from a centroid (engine.py:36-38)
CallCentroidArr ==
    /\ ~call.called
    /\ call' = [ called |-> TRUE, fn |-> "centroid_arr", source |-> centroids[1],
                 out |-> centroid_arr(centroids[1]) ]
    /\ UNCHANGED << np_dot, user_vector, centroids, nearest, adjacent, cand_songs, ranked,
                    songs, clusters, cluster_seq, train, runs, imports, req, viz >>

CallCalculateUserVector ==
    /\ ~call.called
    /\ \E weights \in WeightLists :
         call' = [ called |-> TRUE, fn |-> "calculate_user_vector", source |-> weights,
                   out |-> calculate_user_vector(weights) ]
    /\ UNCHANGED << np_dot, user_vector, centroids, nearest, adjacent, cand_songs, ranked,
                    songs, clusters, cluster_seq, train, runs, imports, req, viz >>

CallSpotifyFeaturesToSongDict ==
    /\ ~call.called
    /\ \E track \in Tracks, audio_features \in AudioFeatures :
         call' = [ called |-> TRUE, fn |-> "spotify_features_to_song_dict",
                   track |-> track, source |-> audio_features,
                   out |-> ImportedSong(spotify_features_to_song_dict(track, audio_features,
                                                                      NULL), NULL) ]
    /\ UNCHANGED << np_dot, user_vector, centroids, nearest, adjacent, cand_songs, ranked,
                    songs, clusters, cluster_seq, train, runs, imports, req, viz >>

NextDefaults ==
    \/ CallVectorToArray
    \/ CallCentroidArr
    \/ CallCalculateUserVector
    \/ CallSpotifyFeaturesToSongDict

SpecDefaults == InitDefaults /\ [][NextDefaults]_vars

(***************************************************************************)
(* Claims about the matching functions.                                    *)
(***************************************************************************)
CentroidId(i) == Get(centroids[i], "cluster_id", 0)
Dist(i) == DistanceSq(user_vector, centroids[i])
CentroidIdx == 1..Len(centroids)

\* the distances the code computes are doubles: centroid j is nearer than
\* centroid i, the two are at the same distance
Nearer(j, i) == DistanceLess(user_vector, centroids[j], centroids[i])
SameDistance(i, j) == ~Nearer(i, j) /\ ~Nearer(j, i)
MinDist(i) == \A j \in CentroidIdx : ~Nearer(j, i)

\* the place in the list of the centroid find_nearest_cluster returns
NearestAt(list) ==
    NearestLoop(user_vector, list, 1,
                [cluster_id |-> 0, distance_sq |-> 0, inf |-> TRUE, at |-> 0]).at

Perms(m) == { p \in [ 1..m -> 1..m ] : \A i, j \in 1..m : p[i] = p[j] => i = j }
Permute(list, p) == [ i \in 1..Len(list) |-> list[p[i]] ]

\* C1: on a non-empty centroid list find_nearest_cluster returns the id and
\* the distance of the first centroid, in list order, among those at minimal
\* Euclidean distance from the query; the distance returned is the same for
\* every permutation of the list; and it is 0 when the query equals a centroid.
C1_NearestIsFirstMinimum ==
    (nearest.called /\ centroids # << >>) =>
        /\ ~nearest.result.inf
        /\ \E i \in CentroidIdx :
              /\ MinDist(i)
              /\ \A j \in 1..(i - 1) : Nearer(i, j)
              /\ nearest.result.cluster_id = CentroidId(i)
              /\ nearest.result.distance_sq = Dist(i)
              /\ \A p \in Perms(Len(centroids)) :
                    /\ find_nearest_cluster(user_vector, Permute(centroids, p)).distance_sq
                          = nearest.result.distance_sq
                    /\ SameDistance(p[NearestAt(Permute(centroids, p))], i)
        /\ (\E i \in CentroidIdx : centroid_arr(centroids[i]) = user_arr(user_vector))
              => nearest.result.distance_sq = 0

\* two centroids with different ids tie at the minimal distance, a third is
\* farther, and the call has returned the id of the earlier one
C1_Witness ==
    /\ nearest.called
    /\ \E i, j, l \in CentroidIdx :
          /\ i < j /\ MinDist(i) /\ SameDistance(i, j) /\ Nearer(i, l)
          /\ centroids[i] # centroids[j]
          /\ CentroidId(i) # CentroidId(j)
          /\ \A h \in 1..(i - 1) : Nearer(i, h)
          /\ nearest.result.cluster_id = CentroidId(i)

\* the number of centroids in front of centroid i in the order by distance,
\* then by list position
RankOf(i) == Cardinality({ j \in CentroidIdx :
                             Nearer(j, i) \/ (SameDistance(j, i) /\ j < i) })

\* C2: for n >= 0 get_adjacent_clusters returns min(n, number of centroids)
\* ids: those of the closest centroids in ascending order of distance, the
\* centroids at equal distance in their list order.
C2_AdjacentSortedStable ==
    adjacent.called =>
        /\ Len(adjacent.ids) = Min(adjacent.n, Len(centroids))
        /\ \A r \in 1..Len(adjacent.ids) :
              \E i \in CentroidIdx : RankOf(i) = r - 1 /\ adjacent.ids[r] = CentroidId(i)

\* fewer ids are asked for than there are centroids, and two of the centroids
\* returned are at the same distance and carry different ids
C2_Witness ==
    /\ adjacent.called
    /\ adjacent.n >= 2 /\ adjacent.n < Len(centroids)
    /\ \E i, j \in CentroidIdx :
          /\ i < j /\ SameDistance(i, j) /\ CentroidId(i) # CentroidId(j)
          /\ RankOf(j) < adjacent.n
          /\ adjacent.ids[RankOf(i) + 1] = CentroidId(i)
          /\ adjacent.ids[RankOf(j) + 1] = CentroidId(j)
    /\ \E i, j \in CentroidIdx : Nearer(i, j)

\* C3: for limit >= 0 the output of rank_songs_in_cluster holds
\* min(limit, number of candidates) distinct candidates, its similarity
\* scores never increase from first to last, and candidates with equal scores
\* keep their input order (a candidate's id is its input position).
C3_RankedSortedStable ==
    ranked.called =>
        /\ Len(ranked.out) = Min(ranked.limit, Len(cand_songs))
        /\ \A r \in 1..Len(ranked.out) :
              \E i \in 1..Len(cand_songs) : ranked.out[r].song = cand_songs[i]
        /\ \A r, q \in 1..Len(ranked.out) :
              r < q =>
                /\ ranked.out[r].song.id # ranked.out[q].song.id
                /\ ranked.out[r].similarity_score >= ranked.out[q].similarity_score
                /\ ranked.out[r].similarity_score = ranked.out[q].similarity_score
                      => ranked.out[r].song.id < ranked.out[q].song.id

\* the limit cuts the list, and the output holds both two candidates with
\* equal scores and two with different scores
C3_Witness ==
    /\ ranked.called
    /\ ranked.limit >= 3 /\ ranked.limit < Len(cand_songs)
    /\ \E r, q \in 1..Len(ranked.out) :
          r < q /\ ranked.out[r].similarity_score = ranked.out[q].similarity_score
    /\ \E r, q \in 1..Len(ranked.out) :
          ranked.out[r].similarity_score > ranked.out[q].similarity_score
             /\ ranked.out[r].song.id > ranked.out[q].song.id


(***************************************************************************)
(* Claims about get_recommendations.                                       *)
(***************************************************************************)
ResultAdjacentIds ==
    [ r \in 1..Len(req.result.adjacent_clusters) |-> req.result.adjacent_clusters[r].id ]

\* C4: in a result of get_recommendations computed over a non-empty cluster
\* store, the matched cluster is the closest one, adjacent_clusters holds at
\* most 2 entries (2, or every other cluster when there are fewer), none of
\* them the matched cluster, and they are the clusters that come next by
\* distance to the query, in ascending order of distance.
C4_AdjacentAreNextClosest ==
    (req.pc = "done" /\ clusters # EmptyTable) =>
        /\ centroids = BuildCentroids(get_all_clusters(clusters))
        /\ ~req.result.matched_cluster.none
        /\ \E i \in CentroidIdx :
              RankOf(i) = 0 /\ CentroidId(i) = req.result.matched_cluster.id
        /\ Len(ResultAdjacentIds) <= 2
        /\ Len(ResultAdjacentIds) = Min(2, Len(centroids) - 1)
        /\ \A r \in 1..Len(ResultAdjacentIds) :
              /\ ResultAdjacentIds[r] # req.result.matched_cluster.id
              /\ \E i \in CentroidIdx : RankOf(i) = r /\ CentroidId(i) = ResultAdjacentIds[r]

\* a result over four clusters at three or more different distances: one
\* cluster is matched, two are adjacent, one is left out
C4_Witness ==
    /\ req.pc = "done"
    /\ Len(centroids) >= 4
    /\ Len(ResultAdjacentIds) = 2
    /\ \E i, j, m \in CentroidIdx : Dist(i) < Dist(j) /\ Dist(j) < Dist(m)

\* C5: over an empty cluster store get_recommendations ends after its one
\* read of the store (get_all_clusters), with no matched cluster, no songs
\* and no adjacent clusters.
C5_EmptyStoreEmptyResult ==
    clusters = EmptyTable =>
        /\ req.pc \in { "idle", "done" }
        /\ req.pc = "done" =>
              /\ req.result.matched_cluster.none
              /\ req.result.songs = << >>
              /\ req.result.adjacent_clusters = << >>
              /\ req.reads = 1

\* a request answered over a store with songs and no clusters
C5_Witness ==
    /\ req.pc = "done"
    /\ clusters = EmptyTable
    /\ songs # << >>
    /\ req.reads = 1

(***************************************************************************)
(* Claims about clustering runs.                                           *)
(***************************************************************************)
Range(f) == { f[x] : x \in DOMAIN f }

Saving == { "save_clusters", "assign_songs", "count_fetch", "count_save" }

\* C6: when a run (one at a time) is about to save its first cluster, the
\* clusters table is empty and every song's cluster_id is NULL; while it
\* saves and assigns, the table holds only clusters it has saved, under ids
\* that were not in the table when the run began; when it completes with
\* cluster count k the table holds exactly k clusters, those the run saved,
\* none under an id that was in the table when the run began.
C6_RunReplacesClusters ==
    \A p \in TrainerIds :
        /\ (train[p].pc = "save_clusters" /\ train[p].i = 0) =>
              /\ clusters = EmptyTable
              /\ \A i \in 1..Len(songs) : songs[i].cluster_id = NULL
        /\ train[p].pc \in Saving =>
              /\ DOMAIN clusters = Range(train[p].cluster_id_map)
              /\ DOMAIN clusters \cap train[p].old_ids = {}
        /\ (train[p].pc = "done" /\ train[p].run_no = runs) =>
              /\ Cardinality(DOMAIN clusters) = train[p].n_clusters
              /\ Len(train[p].cluster_id_map) = train[p].n_clusters
              /\ DOMAIN clusters = Range(train[p].cluster_id_map)
              /\ DOMAIN clusters \cap train[p].old_ids = {}

\* a second run has completed with several clusters over a store that held
\* clusters and assigned songs when it began
C6_Witness ==
    \E p \in TrainerIds :
        /\ train[p].pc = "done" /\ train[p].run_no = runs
        /\ train[p].old_ids # {}
        /\ train[p].n_clusters >= 2
        /\ \A i \in 1..Len(songs) : songs[i].cluster_id \in DOMAIN clusters

(***************************************************************************)
(* Claims about train_clusters and find_optimal_k.                         *)
(***************************************************************************)
\* C7: train_clusters over N >= 1 vectors raises for every n_clusters
\* outside [1, N-1] and returns for every n_clusters inside, 1 included.
C7_FailsOutsideOnly ==
    (call.called /\ call.fn = "train_clusters" /\ Len(call.X) >= 1) =>
        (call.raised <=> ~(1 <= call.n_clusters /\ call.n_clusters <= Len(call.X) - 1))

\* C8: find_optimal_k over N >= 1 vectors raises when the range has
\* candidates and every one of them is >= N.
C8_FailsWithoutCandidate ==
    ( /\ call.called /\ call.fn = "find_optimal_k" /\ Len(call.X) >= 1
      /\ RangeSeq(call.k_range) # << >>
      /\ \A k \in SeqRange(RangeSeq(call.k_range)) : k >= Len(call.X) ) =>
        call.raised

CandidateScore(k) == silhouette_score(call.X, call.draw[k].labels)

PositionIn(ks, k) == CHOOSE i \in 1..Len(ks) : ks[i] = k

\* C9: when every value of the range is a possible cluster count (>= 1) and
\* the silhouette score exists for every candidate k < N, find_optimal_k
\* returns a candidate k < N whose score no other candidate k < N exceeds,
\* the first in scan order among those with that score.
C9_BestOfAllCandidates ==
    ( /\ call.called /\ call.fn = "find_optimal_k"
      /\ \A k \in SeqRange(RangeSeq(call.k_range)) : k >= 1
      /\ Candidates(call.X, call.k_range) # {}
      /\ \A k \in Candidates(call.X, call.k_range) :
            ~SilhouetteRaises(call.draw[k].labels) ) =>
        /\ ~call.raised
        /\ call.best_k \in Candidates(call.X, call.k_range)
        /\ \A k \in Candidates(call.X, call.k_range) :
              \/ CandidateScore(k) < CandidateScore(call.best_k)
              \/ /\ CandidateScore(k) = CandidateScore(call.best_k)
                 /\ PositionIn(RangeSeq(call.k_range), call.best_k)
                        <= PositionIn(RangeSeq(call.k_range), k)

\* C10: for N >= k >= 1 training returns exactly k centroids, each with
\* exactly the 7 feature dimensions, every component in [0, 1].
C10_KCentroidsInUnitCube ==
    ( /\ call.called /\ call.fn = "train_clusters"
      /\ call.n_clusters >= 1 /\ Len(call.X) >= call.n_clusters ) =>
        /\ ~call.raised
        /\ Len(call.centroids) = call.n_clusters
        /\ \A j \in 1..Len(call.centroids) :
              /\ DOMAIN call.centroids[j] \ { "cluster_id" } = FeatureKeySet
              /\ \A key \in FeatureKeySet :
                    call.centroids[j][key] >= 0 /\ call.centroids[j][key] <= ONE

(***************************************************************************)
(* Claims about the projection.                                            *)
(***************************************************************************)
\* C11: a visualization request that returns coordinates has fitted the
\* projection once, on the features of all songs, and every centroid
\* coordinate comes from the fit that produced the song coordinates.
C11_OneFitPerRequest ==
    (viz.pc = "done" /\ viz.songs # << >>) =>
        /\ Len(viz.fits) = 1
        /\ viz.fits[1].fitted_on = features_df(viz.songs)
        /\ \A i \in 1..Len(viz.result.songs) : viz.result.songs[i].xy.pca = viz.fits[1]
        /\ \A j \in 1..Len(viz.result.centroids) :
              viz.result.centroids[j].xy.pca = viz.fits[1]

\* C12: a projection over fewer than 2 vectors fails with an
\* InsufficientDataError and returns no coordinates: reduce_for_visualization
\* called on such a frame raises that error, and a visualization request
\* over 0 songs or over 1 song ends in that failure, with no coordinates.
C12_TooFewVectorsFail ==
    /\ (call.called /\ call.fn = "reduce_for_visualization" /\ Len(call.X) < 2) =>
          /\ call.raised
          /\ call.error = "InsufficientDataError"
          /\ call.coords = << >>
    /\ (viz.pc \in { "done", "failed" } /\ Len(viz.songs) < 2) =>
          /\ viz.pc = "failed"
          /\ viz.error = "InsufficientDataError"
          /\ viz.result.songs = << >> /\ viz.result.centroids = << >>

(***************************************************************************)
(* Claims about the cluster descriptions.                                  *)
(***************************************************************************)
Described == call.called /\ call.fn = "generate_cluster_description"
Glyphed == call.called /\ call.fn = "get_cluster_mood_emoji"

InUnitRange(centroid) ==
    \A k \in DOMAIN centroid : 0 <= centroid[k] /\ centroid[k] <= ONE

\* C13: generate_cluster_description and get_cluster_mood_emoji are total:
\* for every centroid whose values lie in [0,1], any key missing, the
\* description is a non-empty string and so is the emoji.
C13_DescribeTotal ==
    /\ (Described /\ InUnitRange(call.centroid)) =>
          /\ call.description # << >>
          /\ \A i \in 1..Len(call.description) : call.description[i] # ""
    /\ (Glyphed /\ InUnitRange(call.centroid)) => call.emoji # ""

\* the empty dictionary (every key missing) is described by the generic label
C13_Witness ==
    /\ Described
    /\ call.centroid = NoKey
    /\ call.description = << "Balanced mix - versatile tracks spanning multiple styles" >>

C14_Order ==
    << "Upbeat party anthems - energetic, danceable, and feel-good tracks",
       "Intense electronic - driving beats with darker undertones",
       "Melancholic acoustic - introspective, stripped-back emotional pieces",
       "Warm acoustic - cozy, feel-good unplugged vibes",
       "Ambient soundscapes - atmospheric instrumental journeys",
       "Instrumental energy - dynamic tracks without vocals",
       "High-octane rock - powerful, intense guitar-driven sound",
       "Groovy mid-tempo - smooth rhythms perfect for casual listening",
       "Feel-good favorites - positive vibes without being overwhelming",
       "Moody and atmospheric - contemplative tracks with depth",
       "Fast and furious - high-tempo adrenaline rushers",
       "Slow and steady - relaxed tracks for winding down" >>

Holding(centroid) ==
    { i \in 1..Len(composite_rules(centroid)) : composite_rules(centroid)[i].holds }

\* C14: the cascade is first-match-wins in the order party, intense
\* electronic, melancholic acoustic, warm acoustic, ambient, instrumental
\* energy, rock, groovy, feel-good, moody, fast, slow: the description is
\* the label of the earliest rule that holds, however many later ones hold.
C14_FirstMatchWins ==
    Described =>
        LET rules == composite_rules(call.centroid)
            holding == Holding(call.centroid)
        IN  /\ [ i \in 1..Len(rules) |-> rules[i].label ] = C14_Order
            /\ holding # {} =>
                 \E i \in holding :
                    /\ \A j \in holding : i <= j
                    /\ call.description = << C14_Order[i] >>

\* the party rule wins over the instrumental-energy and fast rules
C14_Witness ==
    /\ Described
    /\ Holding(call.centroid) = { 1, 6, 11 }
    /\ call.description = << C14_Order[1] >>

MidRange(centroid) ==
    \A k \in DOMAIN centroid : 3 * ONE <= 10 * centroid[k] /\ 10 * centroid[k] <= 7 * ONE

\* C15: high is > 0.7 and low is < 0.3 in every test: a centroid whose
\* values all lie in [0.3, 0.7] gets the generic label and the generic glyph.
C15_MidRangeIsGeneric ==
    /\ (Described /\ MidRange(call.centroid)) =>
          call.description = << "Balanced mix - versatile tracks spanning multiple styles" >>
    /\ (Glyphed /\ MidRange(call.centroid)) => call.emoji = "U+1F3B5"

High(centroid, key) == 10 * Get(centroid, key, HALF) > 7 * ONE
Low(centroid, key) == 10 * Get(centroid, key, HALF) < 3 * ONE

C16_Dimensions ==
    << [ key |-> "energy",           high |-> "high-energy",  low |-> "chill" ],
       [ key |-> "danceability",     high |-> "danceable",    low |-> "" ],
       [ key |-> "acousticness",     high |-> "acoustic",     low |-> "electronic" ],
       [ key |-> "valence",          high |-> "uplifting",    low |-> "melancholic" ],
       [ key |-> "instrumentalness", high |-> "instrumental", low |-> "" ] >>

C16_Applying(centroid) ==
    SelectSeq([ i \in 1..Len(C16_Dimensions) |->
                  IF High(centroid, C16_Dimensions[i].key) THEN C16_Dimensions[i].high
                  ELSE IF Low(centroid, C16_Dimensions[i].key) THEN C16_Dimensions[i].low
                  ELSE "" ],
              LAMBDA word : word # "")

\* C16: when no composite rule holds, the description is the descriptors
\* that apply, in the order energy, danceability, acousticness, valence,
\* instrumentalness (joined, first letter capitalized), followed by
\* "tracks"; when none applies either it is the fixed generic label.
C16_FallbackDescriptors ==
    (Described /\ Holding(call.centroid) = {}) =>
        call.description =
            IF C16_Applying(call.centroid) = << >>
            THEN << "Balanced mix - versatile tracks spanning multiple styles" >>
            ELSE CapitalizeJoined(C16_Applying(call.centroid)) \o << "tracks" >>

\* "Chill electronic melancholic tracks"
C16_Witness ==
    /\ Described
    /\ Holding(call.centroid) = {}
    /\ call.description = << "Chill", "electronic", "melancholic", "tracks" >>

(***************************************************************************)
(* Claims about the similarity scores.                                     *)
(***************************************************************************)
ZeroMagnitude(arr) == Dot(arr, arr) = 0

\* C17: rank_songs_in_cluster does not fail on zero-magnitude vectors: a
\* candidate is scored exactly 0 whenever the query vector or the
\* candidate's vector has zero magnitude.
C17_ZeroMagnitudeScoresZero ==
    ranked.called =>
        \A i \in 1..Len(ranked.out) :
            (ZeroMagnitude(vector_to_array(user_vector))
               \/ ZeroMagnitude(song_arr(ranked.out[i].song))) =>
                 ranked.out[i].similarity_score = 0

\* a zero candidate is ranked, with score 0, behind a candidate that scores more
C17_Witness ==
    /\ ranked.called
    /\ ~ZeroMagnitude(vector_to_array(user_vector))
    /\ \E i, j \in 1..Len(ranked.out) :
         /\ i < j
         /\ ranked.out[i].similarity_score > 0
         /\ ZeroMagnitude(song_arr(ranked.out[j].song))
         /\ ranked.out[j].similarity_score = 0

Identical == { i \in 1..Len(cand_songs) :
                 song_arr(cand_songs[i]) = user_arr(user_vector) }

\* C18: when exactly one candidate has the query's feature vector and
\* limit >= 1, that candidate is first in the output with score 1.0.
C18_IdenticalFirst ==
    (ranked.called /\ ranked.limit >= 1 /\ Cardinality(Identical) = 1) =>
        /\ ranked.out # << >>
        /\ ranked.out[1].song.id \in { cand_songs[i].id : i \in Identical }
        /\ ranked.out[1].similarity_score = 1000

\* C18, amended: when moreover the query has non-zero magnitude, the
\* candidate scores 1.0, the first entry of the output scores 1.0, and the
\* candidate is the first entry unless a candidate listed before it scores
\* 1.0 as well.
C18_IdenticalScoresOne ==
    (ranked.called /\ ranked.limit >= 1 /\ Cardinality(Identical) = 1
       /\ ~ZeroMagnitude(vector_to_array(user_vector))) =>
        \A k \in Identical :
            /\ similarity_score(vector_to_array(user_vector), song_arr(cand_songs[k])) = 1000
            /\ ranked.out # << >>
            /\ ranked.out[1].similarity_score = 1000
            /\ (\A j \in 1..(k - 1) :
                  similarity_score(vector_to_array(user_vector),
                                   song_arr(cand_songs[j])) < 1000) =>
                    ranked.out[1].song.id = cand_songs[k].id

\* the identical candidate stands last in the input and first in the output
C18_Witness ==
    /\ ranked.called
    /\ ranked.limit >= 1
    /\ Len(cand_songs) >= 3
    /\ Identical = { Len(cand_songs) }
    /\ ~ZeroMagnitude(vector_to_array(user_vector))
    /\ ranked.out[1].song.id = Len(cand_songs)
    /\ ranked.out[1].similarity_score = 1000

(***************************************************************************)
(* Claims about the feature vectors.                                       *)
(***************************************************************************)
InUnitCube(arr) == \A c \in 1..Len(arr) : 0 <= arr[c] /\ arr[c] <= ONE

\* C20: every feature vector handed to the matching has its 7 components in
\* [0,1]: the query array and the array built from each candidate, whose
\* tempo component is bpm / 200 of the stored bpm.
C20_FeaturesInUnitRange ==
    ranked.called =>
        /\ Len(vector_to_array(user_vector)) = Len(FEATURE_KEYS)
        /\ InUnitCube(vector_to_array(user_vector))
        /\ \A i \in 1..Len(cand_songs) :
             /\ Len(song_arr(cand_songs[i])) = Len(FEATURE_KEYS)
             /\ InUnitCube(song_arr(cand_songs[i]))

(***************************************************************************)
(* Claims about missing dimensions.                                        *)
(***************************************************************************)
MissingKeys(d) == { i \in 1..Len(FEATURE_KEYS) : FEATURE_KEYS[i] \notin DOMAIN d }

\* the audio feature a dimension of a song's vector comes from
AudioKey(i) == IF FEATURE_KEYS[i] = "bpm_normalized" THEN "tempo" ELSE FEATURE_KEYS[i]

\* C21: a dimension missing from the source of a feature vector is 0.5:
\* in the array of a query mapping and of a centroid record (keys missing,
\* unknown keys ignored), in the quiz vector for a feature no answer
\* touched, and in the feature vector of a song stored without audio
\* features or without one of them.
C21_MissingIsMidpoint ==
    /\ (call.called /\ call.fn = "vector_to_array") =>
          /\ Len(call.out) = Len(FEATURE_KEYS)
          /\ \A i \in MissingKeys(call.source) : call.out[i] = GRID_HALF
    /\ (call.called /\ call.fn = "centroid_arr") =>
          /\ Len(call.out) = Len(FEATURE_KEYS)
          /\ \A i \in MissingKeys(call.source) : call.out[i] = HALF
    /\ (call.called /\ call.fn = "calculate_user_vector") =>
          \A feature \in FeatureKeySet :
              (\A j \in 1..Len(call.source) : feature \notin DOMAIN call.source[j]) =>
                  call.out[feature] = HALF
    /\ (call.called /\ call.fn = "spotify_features_to_song_dict") =>
          \A i \in 1..Len(FEATURE_KEYS) :
              AudioKey(i) \notin DOMAIN call.source => song_arr(call.out)[i] = HALF

(***************************************************************************)
(* Claims about the effects of the matching operations.                    *)
(***************************************************************************)
\* C22: the matching operations are read-only: no step of
\* get_recommendations (which calls find_nearest_cluster,
\* rank_songs_in_cluster and get_adjacent_clusters) changes the songs table
\* or the clusters table, and once the request has its query vector and its
\* centroid list no step changes them.
C22_MatchingReadOnly ==
    [][ (req' # req) =>
          /\ songs' = songs
          /\ clusters' = clusters
          /\ cluster_seq' = cluster_seq
          /\ (req.pc \notin { "idle", "done" }) =>
                (user_vector' = user_vector /\ centroids' = centroids) ]_vars

\* a request has returned ranked songs over a store with clusters
C22_Witness ==
    /\ req.pc = "done"
    /\ req.result.songs # << >>
    /\ clusters # EmptyTable
    /\ centroids # << >>

(***************************************************************************)
(* Claims about clear_clusters.                                            *)
(***************************************************************************)
\* the steps that call clear_clusters: cli.py:80 and seed_sample_data.py:156
Clearing ==
    \/ train["cli"].pc = "cli_clear" /\ train["cli"]' # train["cli"]
    \/ train["seed"].pc \in Finished /\ train["seed"]'.pc = "seed_read"
    \/ train["seed"].pc = "seed_clear" /\ train["seed"]' # train["seed"]

\* C23: clear_clusters removes every cluster, sets the cluster reference of
\* every song to null and leaves the songs and their other fields as they
\* were.
C23_ClearKeepsSongs ==
    [][ Clearing =>
          /\ clusters' = EmptyTable
          /\ Len(songs') = Len(songs)
          /\ \A i \in 1..Len(songs) :
               songs'[i] = [ songs[i] EXCEPT !.cluster_id = NULL ] ]_vars

\* a second run has cleared the clusters of the first: the songs are all
\* there, without a cluster
C23_Witness ==
    \E p \in TrainerIds :
        /\ train[p].run_no = 2
        /\ train[p].old_ids # {}
        /\ train[p].pc = "save_clusters"
        /\ clusters = EmptyTable
        /\ songs # << >>
        /\ \A i \in 1..Len(songs) : songs[i].cluster_id = NULL

(***************************************************************************)
(* Claims about failing runs.                                              *)
(***************************************************************************)
\* C24: training over an empty catalog ends in an error: train_clusters
\* raises, and a run of the cluster command or of the seed script's
\* run_clustering over no songs ends as failed, never normally.
C24_EmptyCatalogFails ==
    /\ \A k \in KArgs : train_clusters(features_df(<< >>), k, NoFit).raised
    /\ \A p \in TrainerIds :
         (songs = << >> /\ train[p].run_no > 0 /\ train[p].pc \in Finished) =>
             /\ train[p].pc = "failed"
             /\ train[p].error # ""

(***************************************************************************)
(* Claims about the order of the ranking.                                  *)
(***************************************************************************)
\* the cosine similarity of a to u is strictly greater than that of b (0 for
\* a zero vector), compared exactly: (u.a)^2 |b|^2 > (u.b)^2 |a|^2
CosineGreater(u, a, b) ==
    LET da == IF ZeroMagnitude(u) \/ ZeroMagnitude(a) THEN 0 ELSE Dot(u, a)
        db == IF ZeroMagnitude(u) \/ ZeroMagnitude(b) THEN 0 ELSE Dot(u, b)
        na == IF ZeroMagnitude(a) THEN 1 ELSE Dot(a, a)
        nb == IF ZeroMagnitude(b) THEN 1 ELSE Dot(b, b)
    IN  BCmp(BMul(BMul(BFromInt(da), BFromInt(da)), BFromInt(nb)),
             BMul(BMul(BFromInt(db), BFromInt(db)), BFromInt(na))) > 0

\* C25: the ranking follows the cosine similarity itself: of two candidates
\* in the output, the one with the strictly greater cosine similarity to
\* the query comes first.
C25_OrderFollowsCosine ==
    ranked.called =>
        \A i, j \in 1..Len(ranked.out) :
            CosineGreater(vector_to_array(user_vector),
                          song_arr(ranked.out[i].song), song_arr(ranked.out[j].song)) =>
                i < j

(***************************************************************************)
(* Claims about the store a training run leaves behind.                    *)
(***************************************************************************)
SongsReferencing(c) == { i \in 1..Len(songs) : songs[i].cluster_id = c }

RECURSIVE SumCounts(_)
SumCounts(ids) ==
    IF ids = {} THEN 0
    ELSE LET c == CHOOSE x \in ids : TRUE
         IN  clusters[c].song_count + SumCounts(ids \ { c })

\* C26: when a run (one at a time) has completed, every song of the catalog
\* references a cluster the run created, every cluster's song_count is the
\* number of songs that reference it, and the song_counts add up to the
\* number of songs.
C26_CountsMatchMembers ==
    \A p \in TrainerIds :
        (train[p].pc = "done" /\ train[p].run_no = runs) =>
            /\ \A i \in 1..Len(songs) :
                  /\ songs[i].cluster_id \in Range(train[p].cluster_id_map)
                  /\ songs[i].cluster_id \in DOMAIN clusters
            /\ \A c \in DOMAIN clusters :
                  clusters[c].song_count = Cardinality(SongsReferencing(c))
            /\ SumCounts(DOMAIN clusters) = Len(songs)

\* a second run has completed with two clusters, one of them with several
\* members
C26_Witness ==
    \E p \in TrainerIds :
        /\ train[p].pc = "done" /\ train[p].run_no = 2
        /\ train[p].n_clusters = 2
        /\ \E c \in DOMAIN clusters : clusters[c].song_count >= 2
        /\ \E c \in DOMAIN clusters : clusters[c].song_count = 1

\* C27: a run that failed left the clusters and the assignments of the store
\* as they were when the command started: the clusters table is that of
\* before, and every song of before still has its cluster reference.
C27_FailedRunKeepsStore ==
    \A p \in TrainerIds :
        (train[p].pc = "failed" /\ train[p].run_no = runs) =>
            /\ clusters = train[p].old_clusters
            /\ \A i \in 1..Len(train[p].old_songs) :
                 \E j \in 1..Len(songs) :
                     /\ songs[j].id = train[p].old_songs[i].id
                     /\ songs[j].cluster_id = train[p].old_songs[i].cluster_id

(***************************************************************************)
(* Claims about requests and runs that overlap.                            *)
(***************************************************************************)
\* the centroid dictionaries the request read that carry the id
CentroidsRead(id) ==
    { i \in 1..Len(centroids) : centroids[i]["cluster_id"] = id }

\* C28: a result of get_recommendations other than the empty one of a store
\* without clusters has a matched_cluster with the id, the centroid and the
\* description of the cluster that find_nearest_cluster chose in the list
\* the request read, and every song of the result references that cluster,
\* whatever a training run did between the request's reads.
C28_ResultMatchesNearest ==
    (req.pc = "done" /\ ~req.result.matched_cluster.none) =>
        LET matched == req.result.matched_cluster
        IN  /\ matched.found
            /\ matched.id = nearest.result.cluster_id
            /\ \E i \in CentroidsRead(matched.id) :
                  WithId(matched.row.centroid, matched.id) = centroids[i]
            /\ matched.row.description = generate_cluster_description(matched.row.centroid)
            /\ \A r \in 1..Len(req.result.songs) :
                  req.result.songs[r].song.cluster_id = matched.id

\* the same of the results that carry songs only
ResultWithSongsMatchesNearest ==
    (req.pc = "done" /\ req.result.songs # << >>) => C28_ResultMatchesNearest

\* C29: when two cluster commands have both completed, however their store
\* operations interleaved, the clusters table holds exactly the clusters
\* one of the two runs saved, as many as that run's cluster count, every
\* song references one of them, and every song_count is the number of songs
\* that reference the cluster.
C29_OverlapLeavesOneRun ==
    (\A p \in CliIds : train[p].pc = "done") =>
        /\ \E p \in CliIds :
              /\ DOMAIN clusters = Range(train[p].cluster_id_map)
              /\ Cardinality(DOMAIN clusters) = train[p].n_clusters
        /\ \A i \in 1..Len(songs) : songs[i].cluster_id \in DOMAIN clusters
        /\ \A c \in DOMAIN clusters :
              clusters[c].song_count = Cardinality(SongsReferencing(c))

(***************************************************************************)
(* Claims about the reference of a song to its cluster.                    *)
(***************************************************************************)
\* C30: in every state of the store under training runs and track imports,
\* every song's cluster_id is NULL or the id of a row of the clusters table.
C30_ReferencesResolve ==
    \A i \in 1..Len(songs) :
        songs[i].cluster_id = NULL \/ songs[i].cluster_id \in DOMAIN clusters

=============================================================================
